---- MODULE Spec2Model ----
(***************************************************************************)
(* A model of the page-convergence harvesting and aggregation engine of    *)
(* the unified Yandex / 2GIS parser:                                       *)
(*   - the scroll loaders (_scroll_to_load_all_cards of both parsers),     *)
(*   - the harvest orchestrators (YandexParser._parse_cards / parse and    *)
(*     GisParser.parse),                                                   *)
(*   - the review extraction loops (_get_card_reviews_info),               *)
(*   - the aggregators (_update_aggregated_data and the export in parse),  *)
(*     also as operations of a partial run,                                *)
(*   - the 2GIS card assembly (the response time of a card),               *)
(*   - the link collection of a listing page applied on its own,           *)
(*   - the multi-source job of the web application,                        *)
(*   - the Yandex captcha check, alone and after each navigation,          *)
(*   - the status of one task of the web application,                      *)
(*   - the combination of the two runs' results of a multi-source job.     *)
(* Each part has its own specification over the shared variable tuple;     *)
(* a specification leaves the variables of the other parts unchanged.      *)
(***************************************************************************)
EXTENDS Integers, Sequences, FiniteSets, TLC

(***************************************************************************)
(* Bounds of the model and constants of the program.                       *)
(***************************************************************************)
\* max_scrolls (yandex_scroll_max_iter / gis_scroll_max_iter, configuration)
MaxScrolls == 22
\* yandex_min_cards_threshold (configuration)
MinCardsThreshold == 2
\* the largest card count the listing page can show
MaxCount == 2
\* heights are modelled in units of 10 px: two heights are "unchanged"
\* (abs(new - last) < 10) exactly when they are the same unit
MaxHeight == 1
\* the loop passes the model follows before it gives up on a loader run
PassSlack == 3
\* required_no_change of the 2GIS loader
GisRequiredNoChange == 10
\* required_no_change of the Yandex loader, below / at the card threshold
YandexRequiredNoChangeFew == 20
YandexRequiredNoChangeMany == 15

\* the cards one run folds into its summary
MaxCards == 3
\* the review nodes one extraction processes
MaxReviewNodes == 2
\* the page-level review counter ranges over 0..MaxPageCounter
MaxPageCounter == 1
\* max_records (configuration) ranges over 0..MaxRecords
MaxRecords == 2
\* the listing pages of the site
NPages == 2
\* the most card links a listing page shows after its scroll
MaxPageCards == 5
\* the reviews of a card the response time is computed from
MaxCardReviews == 2
\* the cards one source of a job can return
MaxJobCards == 2
\* the recursion depth of check_captcha the model counts up to
MaxCaptchaDepth == 60
\* the cards each run of a combined job returns
MaxCombineCards == 2

Max2(a, b) == IF a >= b THEN a ELSE b

VARIABLES
    \* ---- scroll loader (one _scroll_to_load_all_cards call) ----
    ldParser,                     \* "yandex" or "gis": whose loader runs
    ldPc,                         \* "probe", "loop", "done"
    scrollable_element_selector,  \* TRUE: a container was found; FALSE: None (window scroll)
    scroll_iterations,
    no_change_count,
    previous_card_count,
    max_card_count,
    last_height,
    ldResult,                     \* the returned count (-1 while running)
    ldPasses,                     \* history: passes of the while loop body begun
    ldStop,                       \* history: why the loader stopped
    lastMeasured,                 \* environment: what measure returned last
    maxMeasured,                  \* history: the largest value measure returned
    plateau,                      \* environment: the bound measure stabilises at
    mono                          \* history: measure has been non-decreasing so far

VARIABLES
    \* ---- harvest orchestrator (one parse() run) ----
    hvParser,                 \* "yandex" or "gis"
    hvPc,                     \* the orchestrator's position
    site,                     \* environment: what the listing pages show
    max_records,              \* self._max_records
    collected,                \* _collected_card_data / card_data_list: URLs of the completed CardRecords
    processed_urls,           \* processed_urls (Yandex: card and next-page URLs; 2GIS: card URLs)
    processed_pages,          \* 2GIS: processed_pages
    all_card_urls,            \* 2GIS: all_card_urls, then the part of card_urls not yet iterated
    card_urls_to_parse,       \* Yandex: the part of card_urls_to_parse not yet iterated
    pagination_urls,          \* 2GIS: the part of pagination_urls not yet iterated
    current_page_number,      \* Yandex: self._current_page_number
    current_search_page_url,  \* the listing page the browser shows at the top of the page loop
    hvResult,                 \* what parse() returned
    visitLog,                 \* history: the card URLs navigated to, in order
    pageNavs,                 \* history: the listing pages navigated to as a next page
    paginationInvoked,        \* history: next-page discovery has run
    allVisitsOk,              \* history: every card visit so far produced a CardRecord
    cycleGuardHit,            \* history: a discovered next page was already in the visited set
    navAfterGuard,            \* history: a next page was loaded after the guard had hit
    hvFailed,                 \* history: a navigation, scripting or extraction error happened
    browserAt,                \* the URL the browser was last sent to (a card URL stands for the card's pages)
    discoveries,              \* history: per next-page discovery, where the browser was and whose batch was just processed
    failedVisits,             \* history: the card URLs whose visit produced no CardRecord
    listingError              \* history: loading a listing page raised

hvVars == <<hvParser, hvPc, site, max_records, collected, processed_urls,
            processed_pages, all_card_urls, card_urls_to_parse, pagination_urls,
            current_page_number, current_search_page_url, hvResult, visitLog,
            pageNavs, paginationInvoked, allVisitsOk, cycleGuardHit, navAfterGuard,
            hvFailed, browserAt, discoveries, failedVisits, listingError>>

VARIABLES
    \* ---- review extractor (one _get_card_reviews_info call) ----
    rvParser,             \* "yandex" or "gis"
    rvPc,                 \* "count", "nodes", "resolved", "done"
    node,                 \* the rating signals of the review node being processed
    rating_value,         \* rating_value of the node being processed
    details,              \* reviews_info['details']: <<rating, text>> per kept review
    positive_reviews,     \* reviews_info['positive_reviews']
    negative_reviews,     \* reviews_info['negative_reviews']
    reviews_count,        \* reviews_info['reviews_count']
    reviews_count_total,  \* the page-level review counter
    seen_reviews,         \* seen_reviews: the dedup keys
    rvNodes               \* history: the review nodes processed so far

rvVars == <<rvParser, rvPc, node, rating_value, details, positive_reviews,
            negative_reviews, reviews_count, reviews_count_total, seen_reviews,
            rvNodes>>

VARIABLES
    \* ---- aggregator (the summary of one run) ----
    agParser,            \* "yandex" or "gis"
    agPc,                \* "fold" or "done"
    agCards,             \* the folded cards (card_data_list), in harvest order
    aggregated_rating,   \* 2GIS: aggregated_info['aggregated_rating'] while folding, a fraction
    total_rating_sum,    \* Yandex: self._aggregated_data['total_rating_sum']
    total_cards_found,   \* aggregated_info['total_cards_found']
    exported_rating,     \* the aggregated_rating parse() returns, in hundredths
    aggregated_info,     \* the running sums of reviews, positive, negative, answered, unanswered
    response_times_list, \* 2GIS: aggregated_info['response_times_list'], in days
    total_response_time, \* Yandex: total_response_time_sum_days and ..._calculated_count
    aggregated_avg_response_time, \* the exported response time, in hundredths
    agExportedAt         \* history: the card counts at which the summary was exported mid-run

agVars == <<agParser, agPc, agCards, aggregated_rating, total_rating_sum,
            total_cards_found, exported_rating, aggregated_info,
            response_times_list, total_response_time,
            aggregated_avg_response_time, agExportedAt>>

ldVars == <<ldParser, ldPc, scrollable_element_selector, scroll_iterations,
            no_change_count, previous_card_count, max_card_count, last_height,
            ldResult, ldPasses, ldStop, lastMeasured, maxMeasured, plateau, mono>>

VARIABLES
    \* ---- 2GIS card assembly (the response time of one card) ----
    cdPc,                    \* "idle", "reviews", "averaged" or "card"
    cdDetails,               \* reviews_info['details']: has_response and the two dates
    cdMetadataDays,          \* the API item's metadata avg_response_time_days, in hundredths
    avg_response_time_days,  \* reviews_info['avg_response_time_days'], in hundredths
    card_avg_response_time   \* the card's card_avg_response_time, in hundredths

cdVars == <<cdPc, cdDetails, cdMetadataDays, avg_response_time_days,
            card_avg_response_time>>

\* '' in a numeric field
NoValue == -1

\* no API response for the card
NoApi == -2

\* the card assembly before any card
CdIdle ==
    /\ cdPc = "idle"
    /\ cdDetails = <<>>
    /\ cdMetadataDays = NoValue
    /\ avg_response_time_days = 0
    /\ card_avg_response_time = NoValue

VARIABLES
    \* ---- link collection of a listing page, applied on its own ----
    lcParser,     \* "yandex" or "gis"
    lcPc,         \* "idle", "start", "once", "twice" or "wide"
    lcPage,       \* the card links of the page, in DOM order
    lcExtended,   \* the same page after further scrolling: more cards at the end
    lcMax,        \* max_records
    lcProcessed,  \* Yandex: processed_urls after the first collection
    lcFirst,      \* the links of the first collection of the page
    lcSecond,     \* the links of the second collection of the same page
    lcWide        \* the links collected from the extended page

lcVars == <<lcParser, lcPc, lcPage, lcExtended, lcMax, lcProcessed, lcFirst,
            lcSecond, lcWide>>

\* the link collection before any page
LcIdle ==
    /\ lcParser = "none"
    /\ lcPc = "idle"
    /\ lcPage = <<>>
    /\ lcExtended = <<>>
    /\ lcMax = 0
    /\ lcProcessed = {}
    /\ lcFirst = {}
    /\ lcSecond = {}
    /\ lcWide = {}

VARIABLES
    \* ---- a multi-source job (run_both_parsers_task) ----
    jbPc,            \* the task thread: "idle", "start", "wait_yandex", "wait_gis", "combine", "done"
    ywPc,            \* the Yandex worker: "idle", "driver", "configure", "parse", "returned"
    gwPc,            \* the 2GIS worker: "idle", "driver", "parse", "returned"
    search_scope,    \* "country", "city" or "" (the job's search scope)
    yandex_min_cards_threshold, \* settings.parser.yandex_min_cards_threshold of the module-level settings
    settingsAccess,  \* history: the accesses <<run, "read" or "write">> to the settings object
    yandex_future,   \* what run_yandex_parser returned, status "pending" before
    gis_future,      \* what run_gis_parser returned, status "pending" before
    yandex_result,   \* the task thread's yandex_result, yandex_error
    gis_result,      \* the task thread's gis_result, gis_error
    statistics       \* active_tasks[task_id].statistics, status "none" before it is stored

jbVars == <<jbPc, ywPc, gwPc, search_scope, yandex_min_cards_threshold,
            settingsAccess, yandex_future, gis_future, yandex_result,
            gis_result, statistics>>

\* a future that has not returned, a result not yet taken
Pending == [status |-> "pending", cards |-> 0]

\* the web application before any job
JbIdle ==
    /\ jbPc = "idle" /\ ywPc = "idle" /\ gwPc = "idle"
    /\ search_scope = ""
    /\ yandex_min_cards_threshold = 500
    /\ settingsAccess = {}
    /\ yandex_future = Pending /\ gis_future = Pending
    /\ yandex_result = Pending /\ gis_result = Pending
    /\ statistics = [status |-> "none", total_cards_found |-> 0]

VARIABLES
    \* ---- Yandex check_captcha ----
    cpPc,        \* "idle", "navigate", "check", "sleep", "returned" or "unchecked"
    cpDepth,     \* the calls of check_captcha on the stack below the running one
    is_captcha,  \* whether the page read last shows a challenge
    cpNav,       \* the navigation made last: "search", "card", "reviews", "back", "next" ("none" before)
    cpLanded,    \* whether that navigation landed on a challenge page
    cpRead       \* what the extraction after it read: "content" or "challenge" ("none" before)

cpVars == <<cpPc, cpDepth, is_captcha, cpNav, cpLanded, cpRead>>

\* no captcha check is running
CpIdle ==
    /\ cpPc = "idle"
    /\ cpDepth = 0
    /\ is_captcha = FALSE
    /\ cpNav = "none"
    /\ cpLanded = FALSE
    /\ cpRead = "none"

VARIABLES
    \* ---- one task of the web application (run_both_parsers_task / run_parser_task) ----
    tkTask,            \* "both" or "single": which function the task's thread runs
    tkPc,              \* the task's thread: "idle", "submitted", "save", "complete", "result_file", "except", "ended", "died"
    status,            \* active_tasks[task_id].status
    detailed_results,  \* active_tasks[task_id].detailed_results, status "none" before it is stored
    result_file,       \* active_tasks[task_id].result_file ("none" for None)
    error,             \* active_tasks[task_id].error ("none" for None)
    user_email,        \* whether a notification address was given
    tkOutcome,         \* what the parser run(s) returned
    tkParsed           \* history: the parser run(s) have returned or raised

tkVars == <<tkTask, tkPc, status, detailed_results, result_file, error,
            user_email, tkOutcome, tkParsed>>

\* the web application before any task
TkIdle ==
    /\ tkTask = "none"
    /\ tkPc = "idle"
    /\ status = "none"
    /\ detailed_results = [status |-> "none", cards |-> 0]
    /\ result_file = "none"
    /\ error = "none"
    /\ user_email = FALSE
    /\ tkOutcome = <<>>
    /\ tkParsed = FALSE

VARIABLES
    \* ---- the combination of the two runs' results (run_both_parsers_task) ----
    cbPc,                \* "idle", "yandex", "gis", "means" or "done"
    yandex_cards,        \* yandex_result['cards_data']: the card records of the Yandex run
    gis_cards,           \* gis_result['cards_data']: the card records of the 2GIS run
    all_cards,           \* the combined list of card records
    combined_aggregated  \* the combined summary

cbVars == <<cbPc, yandex_cards, gis_cards, all_cards, combined_aggregated>>

\* the running sums of a summary no card was folded into
ZeroSums == [reviews |-> 0, positive |-> 0, negative |-> 0,
             answered |-> 0, unanswered |-> 0]

\* combined_aggregated as it is created
CombinedZero ==
    [total_cards_found |-> 0, aggregated_rating |-> 0, sums |-> ZeroSums,
     aggregated_avg_response_time |-> 0, aggregated_answered_reviews_percent |-> 0]

\* no result is being combined
CbIdle ==
    /\ cbPc = "idle"
    /\ yandex_cards = <<>> /\ gis_cards = <<>> /\ all_cards = <<>>
    /\ combined_aggregated = CombinedZero

vars == <<ldVars, hvVars, rvVars, agVars, cdVars, lcVars, jbVars, cpVars, tkVars, cbVars>>

(***************************************************************************)
(* ScrollConvergenceLoader: _scroll_to_load_all_cards                      *)
(***************************************************************************)
\* the passes the model follows: enough to see twice max_scrolls exceeded
MaxPasses == 2 * MaxScrolls + PassSlack

Counts == 0..MaxCount
Heights == 0..MaxHeight

\* one call of measure (the card count of the live DOM): any value within the
\* bound; the history records whether the calls so far were non-decreasing
Measure(c) ==
    /\ c \in 0..plateau
    /\ lastMeasured' = c
    /\ maxMeasured' = Max2(maxMeasured, c)
    /\ mono' = (mono /\ c >= lastMeasured)

\* two calls of measure in one pass: the count c of the pass, then the count f
\* of the last final scroll attempt
MeasureTwice(c, f) ==
    /\ c \in 0..plateau /\ f \in 0..plateau
    /\ lastMeasured' = f
    /\ maxMeasured' = Max2(maxMeasured, Max2(c, f))
    /\ mono' = (mono /\ c >= lastMeasured /\ f >= c)

\* the page of a browser that was not sent anywhere yet
Blank == [kind |-> "blank", id |-> 0, q |-> 0]

\* the orchestrator before any run (the state the other specifications keep)
HvIdle ==
    /\ hvParser = "none"
    /\ hvPc = "idle"
    /\ site = [cards |-> <<>>, next |-> <<>>, pagination |-> <<>>]
    /\ max_records = 0
    /\ collected = <<>>
    /\ processed_urls = {}
    /\ processed_pages = {}
    /\ all_card_urls = {}
    /\ card_urls_to_parse = <<>>
    /\ pagination_urls = <<>>
    /\ current_page_number = 1
    /\ current_search_page_url = 1
    /\ hvResult = [status |-> "running", cards |-> <<>>, total |-> 0]
    /\ visitLog = <<>>
    /\ pageNavs = <<>>
    /\ paginationInvoked = FALSE
    /\ allVisitsOk = TRUE
    /\ cycleGuardHit = FALSE
    /\ navAfterGuard = FALSE
    /\ hvFailed = FALSE
    /\ browserAt = Blank
    /\ discoveries = {}
    /\ failedVisits = {}
    /\ listingError = FALSE

\* a node with no rating signal
NoSignal == [attr |-> 0, cls |-> 0, svg |-> 0, filled |-> 0, elData |-> 0,
             elText |-> 0, elStars |-> 0, fullNum |-> 0, extraStars |-> 0]

\* the review extractor before any extraction
RvIdle ==
    /\ rvParser = "none"
    /\ rvPc = "idle"
    /\ node = NoSignal
    /\ rating_value = 0
    /\ details = <<>>
    /\ positive_reviews = 0
    /\ negative_reviews = 0
    /\ reviews_count = 0
    /\ reviews_count_total = 0
    /\ seen_reviews = {}
    /\ rvNodes = 0

\* the summary as it is created
AgZero ==
    /\ agCards = <<>>
    /\ aggregated_rating = [num |-> 0, den |-> 1]
    /\ total_rating_sum = 0
    /\ total_cards_found = 0
    /\ exported_rating = 0
    /\ aggregated_info = ZeroSums
    /\ response_times_list = <<>>
    /\ total_response_time = [sum |-> 0, count |-> 0]
    /\ aggregated_avg_response_time = 0
    /\ agExportedAt = {}

\* the aggregator before any run
AgIdle ==
    /\ agParser = "none"
    /\ agPc = "idle"
    /\ AgZero

LdInit ==
    /\ ldParser \in {"yandex", "gis"}
    /\ ldPc = "probe"
    /\ scrollable_element_selector = FALSE
    /\ scroll_iterations = 0
    /\ no_change_count = 0
    /\ previous_card_count = 0
    /\ max_card_count = 0
    /\ last_height = 0
    /\ ldResult = -1
    /\ ldPasses = 0
    /\ ldStop = "none"
    /\ lastMeasured = 0
    /\ maxMeasured = 0
    /\ plateau \in Counts
    /\ mono = TRUE
    /\ HvIdle
    /\ RvIdle
    /\ AgIdle
    /\ CdIdle
    /\ LcIdle
    /\ JbIdle
    /\ CpIdle
    /\ TkIdle
    /\ CbIdle

\* required_no_change = 20 if max_card_count < min_cards_threshold else 15
RequiredNoChange(maxc) ==
    IF maxc < MinCardsThreshold THEN YandexRequiredNoChangeFew
    ELSE YandexRequiredNoChangeMany

\* (a variant of YandexReturnValue: the last count instead of the largest)
YandexReturnValueLast(maxc, prev) == prev

\* return max_card_count if max_card_count > previous_card_count else previous_card_count
YandexReturnValue(maxc, prev) == IF maxc > prev THEN maxc ELSE prev

\* the loader returns: ldResult is set, nothing else moves
LdReturn(value, why) ==
    /\ ldPc' = "done"
    /\ ldResult' = value
    /\ ldStop' = why

\* Yandex: the JavaScript test and the search for the scrollable container.
\* A failing test returns 0 at once; a failing or empty search leaves the
\* selector None (window scroll).
YProbe ==
    /\ ldParser = "yandex" /\ ldPc = "probe"
    /\ \/ /\ LdReturn(0, "js_test_failed")
          /\ UNCHANGED scrollable_element_selector
       \/ /\ scrollable_element_selector' \in BOOLEAN
          /\ ldPc' = "loop"
          /\ UNCHANGED <<ldResult, ldStop>>
    /\ UNCHANGED <<ldParser, scroll_iterations, no_change_count, previous_card_count,
                   max_card_count, last_height, ldPasses, lastMeasured, maxMeasured,
                   plateau, mono>>

\* Yandex: while scroll_iterations < max_scrolls is false: fall out of the loop
YLoopExit ==
    /\ ldParser = "yandex" /\ ldPc = "loop"
    /\ scroll_iterations >= MaxScrolls
    /\ LdReturn(YandexReturnValue(max_card_count, previous_card_count), "max_scrolls")
    /\ UNCHANGED <<ldParser, scrollable_element_selector, scroll_iterations,
                   no_change_count, previous_card_count, max_card_count, last_height,
                   ldPasses, lastMeasured, maxMeasured, plateau, mono>>

\* Yandex: a pass that raises before the count is taken (outer except):
\* scroll_iterations += 1 and the loop goes on
YPassError ==
    /\ ldParser = "yandex" /\ ldPc = "loop"
    /\ scroll_iterations < MaxScrolls /\ ldPasses < MaxPasses
    /\ ldPasses' = ldPasses + 1
    /\ scroll_iterations' = scroll_iterations + 1
    /\ UNCHANGED <<ldParser, ldPc, scrollable_element_selector, no_change_count,
                   previous_card_count, max_card_count, last_height, ldResult, ldStop,
                   lastMeasured, maxMeasured, plateau, mono>>

\* Yandex: the scroll script and the alternative scroll both raise: break
YPassScrollFailed ==
    /\ ldParser = "yandex" /\ ldPc = "loop"
    /\ scroll_iterations < MaxScrolls /\ ldPasses < MaxPasses
    /\ ldPasses' = ldPasses + 1
    /\ LdReturn(YandexReturnValue(max_card_count, previous_card_count), "scroll_failed")
    /\ UNCHANGED <<ldParser, scrollable_element_selector, scroll_iterations,
                   no_change_count, previous_card_count, max_card_count, last_height,
                   lastMeasured, maxMeasured, plateau, mono>>

\* the end of a Yandex pass that did not stop:
\* previous_card_count = new_card_count; last_height = new_height; scroll_iterations += 1
YPassAdvance(c, h, ncc, maxc) ==
    /\ previous_card_count' = c
    /\ last_height' = h
    /\ scroll_iterations' = scroll_iterations + 1
    /\ no_change_count' = ncc
    /\ max_card_count' = maxc
    /\ UNCHANGED <<ldPc, ldResult, ldStop>>

\* the "continue" of the final scroll attempts: the pass ends without
\* updating previous_card_count, last_height or scroll_iterations
YPassContinue(ncc, maxc) ==
    /\ no_change_count' = ncc
    /\ max_card_count' = maxc
    /\ UNCHANGED <<previous_card_count, last_height, scroll_iterations,
                   ldPc, ldResult, ldStop>>

\* Yandex: a pass that scrolls, reads the new height h and counts c cards.
\* (A failed height read makes h the height before the scroll, 0 when that
\* read failed too: both are among the heights chosen here.)
YPassMeasured ==
    /\ ldParser = "yandex" /\ ldPc = "loop"
    /\ scroll_iterations < MaxScrolls /\ ldPasses < MaxPasses
    /\ ldPasses' = ldPasses + 1
    /\ \E c \in Counts, h \in Heights :
        LET maxc == Max2(max_card_count, c)
            height_unchanged == (h = last_height)
            cards_unchanged == (c = previous_card_count)
            ncc == no_change_count + 1
        IN  IF height_unchanged /\ cards_unchanged
            THEN IF ncc >= RequiredNoChange(maxc)
                 THEN IF scrollable_element_selector /\ maxc < MinCardsThreshold
                      THEN \* up to five scrolls to the very bottom, each recounting
                           \/ \* an attempt counts f > max_card_count: reset and continue
                              \E f \in Counts :
                                /\ f > maxc
                                /\ MeasureTwice(c, f)
                                /\ YPassContinue(0, f)
                           \/ \* no attempt counts more: the last one counts v
                              \E v \in Counts :
                                /\ v <= maxc
                                /\ MeasureTwice(c, v)
                                /\ IF maxc > previous_card_count
                                   THEN YPassContinue(ncc, maxc)
                                   ELSE /\ LdReturn(YandexReturnValue(maxc, previous_card_count),
                                                    "converged")
                                        /\ no_change_count' = ncc
                                        /\ max_card_count' = maxc
                                        /\ UNCHANGED <<previous_card_count, last_height,
                                                       scroll_iterations>>
                           \/ \* an attempt raises: logged, then the loop breaks
                              /\ Measure(c)
                              /\ LdReturn(YandexReturnValue(maxc, previous_card_count),
                                          "converged")
                              /\ no_change_count' = ncc
                              /\ max_card_count' = maxc
                              /\ UNCHANGED <<previous_card_count, last_height,
                                             scroll_iterations>>
                      ELSE /\ Measure(c)
                           /\ LdReturn(YandexReturnValue(maxc, previous_card_count),
                                       "converged")
                           /\ no_change_count' = ncc
                           /\ max_card_count' = maxc
                           /\ UNCHANGED <<previous_card_count, last_height,
                                          scroll_iterations>>
                 ELSE Measure(c) /\ YPassAdvance(c, h, ncc, maxc)
            ELSE Measure(c) /\ YPassAdvance(c, h, 0, maxc)
    /\ UNCHANGED <<ldParser, scrollable_element_selector, plateau>>

\* 2GIS: the search for the scrollable container (found, not found or raising)
GProbe ==
    /\ ldParser = "gis" /\ ldPc = "probe"
    /\ scrollable_element_selector' \in BOOLEAN
    /\ ldPc' = "loop"
    /\ UNCHANGED <<ldParser, scroll_iterations, no_change_count, previous_card_count,
                   max_card_count, last_height, ldResult, ldPasses, ldStop,
                   lastMeasured, maxMeasured, plateau, mono>>

\* 2GIS: while scroll_iterations < max_scrolls is false
GLoopExit ==
    /\ ldParser = "gis" /\ ldPc = "loop"
    /\ scroll_iterations >= MaxScrolls
    /\ LdReturn(max_card_count, "max_scrolls")
    /\ UNCHANGED <<ldParser, scrollable_element_selector, scroll_iterations,
                   no_change_count, previous_card_count, max_card_count, last_height,
                   ldPasses, lastMeasured, maxMeasured, plateau, mono>>

\* 2GIS: reading the page raises before the count is taken: break
GPassError ==
    /\ ldParser = "gis" /\ ldPc = "loop"
    /\ scroll_iterations < MaxScrolls /\ ldPasses < MaxPasses
    /\ ldPasses' = ldPasses + 1
    /\ LdReturn(max_card_count, "error")
    /\ UNCHANGED <<ldParser, scrollable_element_selector, scroll_iterations,
                   no_change_count, previous_card_count, max_card_count, last_height,
                   lastMeasured, maxMeasured, plateau, mono>>

\* 2GIS: a pass that counts c cards, then scrolls
GPassMeasured ==
    /\ ldParser = "gis" /\ ldPc = "loop"
    /\ scroll_iterations < MaxScrolls /\ ldPasses < MaxPasses
    /\ ldPasses' = ldPasses + 1
    /\ \E c \in Counts :
        LET grew == c > max_card_count
            maxc == IF grew THEN c ELSE max_card_count
            ncc == IF grew THEN 0 ELSE no_change_count + 1
        IN  /\ Measure(c)
            /\ max_card_count' = maxc
            /\ no_change_count' = ncc
            /\ IF ncc >= GisRequiredNoChange
               THEN /\ LdReturn(maxc, "converged")
                    /\ UNCHANGED scroll_iterations
               ELSE \/ \* the scroll script raises: break
                       /\ LdReturn(maxc, "error")
                       /\ UNCHANGED scroll_iterations
                    \/ \* the scroll reached the bottom: break
                       /\ LdReturn(maxc, "bottom")
                       /\ UNCHANGED scroll_iterations
                    \/ \* time.sleep; scroll_iterations += 1
                       /\ scroll_iterations' = scroll_iterations + 1
                       /\ UNCHANGED <<ldPc, ldResult, ldStop>>
    /\ UNCHANGED <<ldParser, scrollable_element_selector, previous_card_count,
                   last_height, plateau>>

LdStep ==
    \/ YProbe \/ YLoopExit \/ YPassError \/ YPassScrollFailed \/ YPassMeasured
    \/ GProbe \/ GLoopExit \/ GPassError \/ GPassMeasured

LdNext == LdStep /\ UNCHANGED <<hvVars, rvVars, agVars, cdVars, lcVars, jbVars, cpVars, tkVars, cbVars>>

SpecScroll == LdInit /\ [][LdNext]_vars

(***************************************************************************)
(* Claims about the scroll loader                                          *)
(***************************************************************************)
\* C1: Load always terminates after at most maxIterations loop iterations,
\* whatever measure and scrollStep do: the loop body is never begun more
\* than max_scrolls times.
C1_PassesWithinMaxIterations == ldPasses <= MaxScrolls

C21Required ==
    IF ldParser = "yandex" THEN RequiredNoChange(max_card_count)
    ELSE GisRequiredNoChange

\* C21: the scroll stop rule.  In every pass of the loop no_change_count is
\* incremented only when neither the height nor the card count differs from
\* the previous pass and is reset to 0 whenever one of them differs; the
\* loader leaves the loop exactly when no_change_count >= required_no_change,
\* and for no other reason short of max_scrolls.
C21_StopRule ==
    [][ ldPc = "loop" =>
          /\ (no_change_count' = no_change_count + 1)
                => (lastMeasured' = lastMeasured /\ last_height' = last_height)
          /\ (lastMeasured' # lastMeasured \/ last_height' # last_height)
                => (no_change_count' = 0)
          /\ (ldPc' = "loop") => (no_change_count' < C21Required')
          /\ (ldPc' = "done") =>
                \/ ldStop' = "converged" /\ no_change_count' >= C21Required'
                \/ ldStop' = "max_scrolls" ]_vars

\* C23: a scripting error during one scroll pass never ends the load: the
\* loader never stops because a pass raised.
C23_ScriptErrorNeverEndsLoad == ldStop \notin {"error", "scroll_failed"}

\* C24: a loader whose first probe of the page failed still performs scroll
\* passes, in window-scroll mode (no container selector).
C24_ProbeFailureStillScrolls ==
    (ldStop = "js_test_failed") => (ldPasses >= 1 /\ ~scrollable_element_selector)

(***************************************************************************)
(* HarvestOrchestrator: YandexParser._parse_cards / parse, GisParser.parse *)
(***************************************************************************)
\* the loader before any load (the state the other specifications keep)
LdIdle ==
    /\ ldParser = "none"
    /\ ldPc = "idle"
    /\ scrollable_element_selector = FALSE
    /\ scroll_iterations = 0
    /\ no_change_count = 0
    /\ previous_card_count = 0
    /\ max_card_count = 0
    /\ last_height = 0
    /\ ldResult = -1
    /\ ldPasses = 0
    /\ ldStop = "none"
    /\ lastMeasured = 0
    /\ maxMeasured = 0
    /\ plateau = 0
    /\ mono = TRUE

\* URLs: a card link is its path (the organisation id) and its query string
\* (0 is the empty query); a listing page is its page number
Card(id, q) == [kind |-> "card", id |-> id, q |-> q]
List(n) == [kind |-> "list", id |-> n, q |-> 0]

\* href.split('?')[0]: the query is dropped, the path is kept
StripQuery(u) == [u EXCEPT !.q = 0]

Pages == 1..NPages

\* the card links a listing page can show once it is scrolled, in DOM order:
\* n cards first, first+1, ..., optionally followed by a second link to the
\* first card that differs in its query string only
PageCards(first, n, dup) ==
    [i \in 1..n |-> Card(first + i - 1, 0)] \o (IF dup THEN <<Card(first, 1)>> ELSE <<>>)

FirstPageCards ==
    {PageCards(1, n, dup) : n \in 0..MaxPageCards, dup \in BOOLEAN} \ {<<Card(1, 1)>>}

OtherPageCards == {<<>>, <<Card(1, 1)>>, <<Card(MaxPageCards + 1, 0)>>}

CardsOf(p) == IF p = 1 THEN FirstPageCards ELSE OtherPageCards

\* the href of the next-page link a listing page can show: none (0), the
\* following page, the start page, or the page itself
NextOf(p) == {0, 1, p} \cup (IF p < NPages THEN {p + 1} ELSE {})

\* a page of the site the run has not looked at yet
Unseen == [cards |-> <<>>, seen |-> FALSE, next |-> -1]

\* the page p after the browser loaded it: what it shows is fixed on the
\* first load (the site does not change during a run)
Loaded(p, cards) ==
    IF site[p].seen THEN site
    ELSE [site EXCEPT ![p] = [cards |-> cards, seen |-> TRUE, next |-> -1]]

HvInit ==
    /\ LdIdle
    /\ RvIdle
    /\ AgIdle
    /\ CdIdle
    /\ LcIdle
    /\ JbIdle
    /\ CpIdle
    /\ TkIdle
    /\ CbIdle
    /\ hvParser \in {"yandex", "gis"}
    /\ hvPc = "start"
    /\ site = [p \in Pages |-> Unseen]
    /\ max_records \in 0..MaxRecords
    /\ collected = <<>>
    /\ processed_urls = {}
    /\ processed_pages = {}
    /\ all_card_urls = {}
    /\ card_urls_to_parse = <<>>
    /\ pagination_urls = <<>>
    /\ current_page_number = 1
    /\ current_search_page_url = 1
    /\ hvResult = [status |-> "running", cards |-> <<>>, total |-> 0]
    /\ visitLog = <<>>
    /\ pageNavs = <<>>
    /\ paginationInvoked = FALSE
    /\ allVisitsOk = TRUE
    /\ cycleGuardHit = FALSE
    /\ navAfterGuard = FALSE
    /\ hvFailed = FALSE
    /\ browserAt = Blank
    /\ discoveries = {}
    /\ failedVisits = {}
    /\ listingError = FALSE

\* parse() returns: the cards and the summary's card total
HvReturn(how, cards) ==
    /\ hvPc' = "done"
    /\ hvResult' = [status |-> how, cards |-> cards, total |-> Len(cards)]

\* ---- Yandex: _parse_cards and parse ----
\* (a variant of YCollectUrls: the URL is not looked up in processed_urls)
RECURSIVE YCollectUrlsUnchecked(_, _, _, _, _)
YCollectUrlsUnchecked(cards, urls, processed, done, max) ==
    IF cards = <<>> \/ done + Len(urls) >= max
    THEN [urls |-> urls, processed |-> processed]
    ELSE YCollectUrlsUnchecked(Tail(cards), Append(urls, Head(cards)),
                               processed \cup {Head(cards)}, done, max)

\* Yandex: the link collection of one page: the cards in DOM order, stopping
\* when done + len(card_urls_to_parse) reaches max (done is the number of
\* cards collected so far, max is max_records); a URL joins
\* card_urls_to_parse and processed_urls when it is not in processed_urls
\* (the URL is compared as found, query string included)
RECURSIVE YCollectUrls(_, _, _, _, _)
YCollectUrls(cards, urls, processed, done, max) ==
    IF cards = <<>> \/ done + Len(urls) >= max
    THEN [urls |-> urls, processed |-> processed]
    ELSE IF Head(cards) \notin processed
         THEN YCollectUrls(Tail(cards), Append(urls, Head(cards)),
                           processed \cup {Head(cards)}, done, max)
         ELSE YCollectUrls(Tail(cards), urls, processed, done, max)

\* if len(self._collected_card_data) >= self._max_records: break
YVisitBudgetReached == Len(collected) >= max_records

\* Yandex: navigate(search_query_url); check_captcha(); an error returns []
YNavigateSearch ==
    /\ hvParser = "yandex" /\ hvPc = "start"
    /\ \/ /\ hvPc' = "y_loop"
          /\ browserAt' = List(1)
          /\ UNCHANGED <<hvResult, hvFailed, listingError>>
       \/ /\ hvFailed' = TRUE
          /\ listingError' = TRUE
          /\ browserAt' = List(1)
          /\ hvPc' = "y_return"
          /\ UNCHANGED hvResult
    /\ UNCHANGED <<hvParser, site, max_records, collected, processed_urls,
                   processed_pages, all_card_urls, card_urls_to_parse,
                   pagination_urls, current_page_number, current_search_page_url,
                   visitLog, pageNavs, paginationInvoked, allVisitsOk,
                   cycleGuardHit, navAfterGuard,
                   discoveries, failedVisits>>

\* Yandex: the top of the page loop without a collection: the while
\* condition is false, the driver check breaks, the scroll or the page read
\* raises inside the try (break), or check_captcha raises outside it
YPageNoCollect ==
    /\ hvParser = "yandex" /\ hvPc = "y_loop"
    /\ \/ /\ Len(collected) >= max_records
          /\ hvPc' = "y_return"
          /\ UNCHANGED hvFailed
       \/ /\ Len(collected) < max_records
          /\ hvFailed' = TRUE
          /\ hvPc' \in {"y_return", "y_raised"}
    /\ UNCHANGED <<hvParser, site, max_records, collected, processed_urls,
                   processed_pages, all_card_urls, card_urls_to_parse,
                   pagination_urls, current_page_number, current_search_page_url,
                   hvResult, visitLog, pageNavs, paginationInvoked, allVisitsOk,
                   cycleGuardHit, navAfterGuard,
                   browserAt, discoveries, failedVisits, listingError>>

\* Yandex: Steps 1 to 3 of a page: scroll, read the cards, collect their links
YPageCollect ==
    /\ hvParser = "yandex" /\ hvPc = "y_loop"
    /\ Len(collected) < max_records
    /\ \E cards \in CardsOf(current_search_page_url) :
        LET now == Loaded(current_search_page_url, cards)
            got == YCollectUrls(now[current_search_page_url].cards, <<>>,
                                processed_urls, Len(collected), max_records)
        IN  /\ site' = now
            /\ card_urls_to_parse' = got.urls
            /\ processed_urls' = got.processed
    /\ hvPc' = "y_visit"
    /\ UNCHANGED <<hvParser, max_records, collected, processed_pages, all_card_urls,
                   pagination_urls, current_page_number, current_search_page_url,
                   hvResult, visitLog, pageNavs, paginationInvoked, allVisitsOk,
                   cycleGuardHit, navAfterGuard, hvFailed,
                   browserAt, discoveries, failedVisits, listingError>>

\* Yandex: one card of card_urls_to_parse: navigate, check_captcha, extract;
\* the record is appended when it has a card_name; an error is logged
YVisit ==
    /\ hvParser = "yandex" /\ hvPc = "y_visit"
    /\ card_urls_to_parse # <<>>
    /\ ~YVisitBudgetReached
    /\ visitLog' = Append(visitLog, Head(card_urls_to_parse))
    /\ card_urls_to_parse' = Tail(card_urls_to_parse)
    /\ \/ /\ collected' = Append(collected, Head(card_urls_to_parse))
          /\ browserAt' = Head(card_urls_to_parse)
          /\ UNCHANGED <<allVisitsOk, hvFailed, failedVisits>>
       \/ /\ allVisitsOk' = FALSE
          /\ hvFailed' \in {hvFailed, TRUE}
          /\ failedVisits' = failedVisits \cup {Head(card_urls_to_parse)}
          /\ browserAt' = Head(card_urls_to_parse)
          /\ UNCHANGED collected
    /\ UNCHANGED <<hvParser, hvPc, site, max_records, processed_urls, processed_pages,
                   all_card_urls, pagination_urls, current_page_number,
                   current_search_page_url, hvResult, pageNavs, paginationInvoked,
                   cycleGuardHit, navAfterGuard,
                   discoveries, listingError>>

\* Yandex: the visit loop ends (list exhausted or budget reached); with the
\* budget reached the page loop breaks, otherwise Step 6 follows
YVisitsEnd ==
    /\ hvParser = "yandex" /\ hvPc = "y_visit"
    /\ card_urls_to_parse = <<>> \/ YVisitBudgetReached
    /\ hvPc' = IF Len(collected) >= max_records THEN "y_return" ELSE "y_step6"
    /\ UNCHANGED <<hvParser, site, max_records, collected, processed_urls,
                   processed_pages, all_card_urls, card_urls_to_parse, pagination_urls,
                   current_page_number, current_search_page_url, hvResult, visitLog,
                   pageNavs, paginationInvoked, allVisitsOk, cycleGuardHit,
                   navAfterGuard, hvFailed,
                   browserAt, discoveries, failedVisits, listingError>>

\* (a variant of ReturnToSearchPage: no navigation, the browser stays where
\* the last card visit left it)
StayOnLastPage(search_page, at) == at

\* Step 6: self.driver.navigate(current_search_page_url): where the browser
\* is when the next-page link is searched for
ReturnToSearchPage(search_page, at) == search_page

\* (a variant of AlreadyProcessed: the next-page URL is never taken as
\* processed)
NeverProcessed(url, processed) == FALSE

\* if next_page_url in processed_urls: the page loop breaks
AlreadyProcessed(url, processed) == url \in processed

\* Yandex: Step 6: back to the search page (navigate and check_captcha are
\* outside any try), then the search for the next-page link and the move to it
YPaginate ==
    /\ hvParser = "yandex" /\ hvPc = "y_step6"
    /\ \/ \* navigating back or reading the page raises
          /\ hvFailed' = TRUE
          /\ listingError' = TRUE
          /\ browserAt' = List(current_search_page_url)
          /\ hvPc' = "y_raised"
          /\ UNCHANGED <<site, processed_urls, pageNavs, paginationInvoked,
                         cycleGuardHit, current_page_number, current_search_page_url,
                         discoveries>>
       \/ \E nx \in NextOf(current_search_page_url) :
            LET p == current_search_page_url
                next == IF site[p].next = -1 THEN nx ELSE site[p].next
                back == ReturnToSearchPage(List(p), browserAt)
            IN  /\ site' = [site EXCEPT ![p].next = next]
                /\ paginationInvoked' = TRUE
                /\ discoveries' = discoveries \cup {[at |-> back, batch |-> List(p)]}
                /\ IF next = 0
                   THEN /\ hvPc' = "y_return"
                        /\ browserAt' = back
                        /\ UNCHANGED <<processed_urls, pageNavs, cycleGuardHit,
                                       current_page_number, current_search_page_url,
                                       hvFailed, listingError>>
                   ELSE IF AlreadyProcessed(List(next), processed_urls)
                   THEN /\ cycleGuardHit' = TRUE
                        /\ hvPc' = "y_return"
                        /\ browserAt' = back
                        /\ UNCHANGED <<processed_urls, pageNavs, current_page_number,
                                       current_search_page_url, hvFailed, listingError>>
                   ELSE /\ processed_urls' = processed_urls \cup {List(next)}
                        /\ pageNavs' = Append(pageNavs, next)
                        /\ UNCHANGED cycleGuardHit
                        /\ \/ /\ current_page_number' = current_page_number + 1
                              /\ current_search_page_url' = next
                              /\ browserAt' = List(next)
                              /\ hvPc' = "y_loop"
                              /\ UNCHANGED <<hvFailed, listingError>>
                           \/ \* navigate or check_captcha raises
                              /\ hvFailed' = TRUE
                              /\ listingError' = TRUE
                              /\ browserAt' = List(next)
                              /\ hvPc' = "y_raised"
                              /\ UNCHANGED <<current_page_number,
                                             current_search_page_url>>
    /\ navAfterGuard' = (navAfterGuard \/ (cycleGuardHit /\ pageNavs' # pageNavs))
    /\ UNCHANGED <<hvParser, max_records, collected, processed_pages, all_card_urls,
                   card_urls_to_parse, pagination_urls, hvResult, visitLog,
                   allVisitsOk, failedVisits>>

\* Yandex: parse() after _parse_cards returned: the cards and their summary
YParseReturns ==
    /\ hvParser = "yandex" /\ hvPc = "y_return"
    /\ HvReturn("returned", collected)
    /\ UNCHANGED <<hvParser, site, max_records, collected, processed_urls,
                   processed_pages, all_card_urls, card_urls_to_parse,
                   pagination_urls, current_page_number, current_search_page_url,
                   visitLog, pageNavs, paginationInvoked, allVisitsOk,
                   cycleGuardHit, navAfterGuard, hvFailed,
                   browserAt, discoveries, failedVisits, listingError>>

\* Yandex: parse() after _parse_cards raised:
\* except Exception: collected_cards_data = [], and the empty result is returned
YParseExcept ==
    /\ hvParser = "yandex" /\ hvPc = "y_raised"
    /\ HvReturn("returned", <<>>)
    /\ UNCHANGED <<hvParser, site, max_records, collected, processed_urls,
                   processed_pages, all_card_urls, card_urls_to_parse,
                   pagination_urls, current_page_number, current_search_page_url,
                   visitLog, pageNavs, paginationInvoked, allVisitsOk,
                   cycleGuardHit, navAfterGuard, hvFailed,
                   browserAt, discoveries, failedVisits, listingError>>

\* ---- 2GIS: parse ----
\* 2GIS _get_links: the firm links of the loaded page, each with its query
\* string removed, as a set; the second method (run when the first found
\* fewer than 80% of the card elements) adds links of the same anchors
GisGetLinksDropOnLowCoverage(cards) ==
    LET method1 == {StripQuery(cards[i]) : i \in 1..Len(cards)}
    IN  IF 10 * Cardinality(method1) < 8 * Len(cards) THEN {} ELSE method1

GisGetLinks(cards) ==
    LET method1 == {StripQuery(cards[i]) : i \in 1..Len(cards)}
        method2 == IF 10 * Cardinality(method1) < 8 * Len(cards)
                   THEN {StripQuery(cards[i]) : i \in 1..Len(cards)}
                   ELSE {}
    IN  method1 \cup method2

\* the elements of a set of page numbers in ascending order
RECURSIVE SortedPages(_)
SortedPages(S) ==
    IF S = {} THEN <<>>
    ELSE LET m == CHOOSE x \in S : \A y \in S : x <= y
         IN  <<List(m)>> \o SortedPages(S \ {m})

\* (variants of the two budget checks below: the test never stops the loop)
GPaginationBudgetNever == FALSE
GVisitBudgetNever == FALSE

\* if len(all_card_urls) >= self._max_records: break
GPaginationBudgetReached == Cardinality(all_card_urls) >= max_records

\* if len(card_data_list) >= self._max_records: break
GVisitBudgetReached == Len(collected) >= max_records

\* 2GIS: the initial navigation and script injection; an error is re-raised
GNavigateInitial ==
    /\ hvParser = "gis" /\ hvPc = "start"
    /\ \/ /\ hvPc' = "g_first"
          /\ browserAt' = List(1)
          /\ UNCHANGED <<hvResult, hvFailed, listingError>>
       \/ /\ hvFailed' = TRUE
          /\ listingError' = TRUE
          /\ browserAt' = List(1)
          /\ hvPc' = "done"
          /\ hvResult' = [status |-> "raised", cards |-> <<>>, total |-> 0]
    /\ UNCHANGED <<hvParser, site, max_records, collected, processed_urls,
                   processed_pages, all_card_urls, card_urls_to_parse,
                   pagination_urls, current_page_number, current_search_page_url,
                   visitLog, pageNavs, paginationInvoked, allVisitsOk,
                   cycleGuardHit, navAfterGuard,
                   discoveries, failedVisits>>

\* 2GIS: Step 1: the first page is loaded and scrolled, its links are
\* collected, and the pagination links are read from it; an error anywhere
\* in the step reaches the outer except, which returns the empty result
GFirstPage ==
    /\ hvParser = "gis" /\ hvPc = "g_first"
    /\ \/ /\ hvFailed' = TRUE
          /\ listingError' = TRUE
          /\ browserAt' = List(1)
          /\ HvReturn("returned", collected)
          /\ UNCHANGED <<site, all_card_urls, processed_pages, pagination_urls,
                         paginationInvoked, discoveries>>
       \/ \E cards \in CardsOf(1), links \in SUBSET Pages :
            /\ site' = Loaded(1, cards)
            /\ all_card_urls' = GisGetLinks(site'[1].cards)
            /\ processed_pages' = {List(1)}
            /\ browserAt' = List(1)
            /\ paginationInvoked' = TRUE
            /\ discoveries' = discoveries \cup {[at |-> browserAt', batch |-> List(1)]}
            /\ pagination_urls' = SortedPages(links)
            /\ hvPc' = "g_pages"
            /\ UNCHANGED <<hvResult, hvFailed, listingError>>
    /\ UNCHANGED <<hvParser, max_records, collected, processed_urls,
                   card_urls_to_parse, current_page_number, current_search_page_url,
                   visitLog, pageNavs, allVisitsOk, cycleGuardHit, navAfterGuard,
                   failedVisits>>

\* 2GIS: Step 2, one pagination link: skipped when already in
\* processed_pages, otherwise loaded, scrolled and harvested; an error
\* leaves the page out and the loop goes on
GPaginationPage ==
    /\ hvParser = "gis" /\ hvPc = "g_pages"
    /\ pagination_urls # <<>>
    /\ ~GPaginationBudgetReached
    /\ pagination_urls' = Tail(pagination_urls)
    /\ LET page_url == Head(pagination_urls)
       IN  IF page_url \in processed_pages
           THEN /\ cycleGuardHit' = TRUE
                /\ UNCHANGED <<site, all_card_urls, processed_pages, pageNavs,
                               navAfterGuard, hvFailed, browserAt, listingError>>
           ELSE /\ pageNavs' = Append(pageNavs, page_url.id)
                /\ navAfterGuard' = (navAfterGuard \/ cycleGuardHit)
                /\ UNCHANGED cycleGuardHit
                /\ \/ \E cards \in CardsOf(page_url.id) :
                        /\ site' = Loaded(page_url.id, cards)
                        /\ all_card_urls' =
                             all_card_urls \cup GisGetLinks(site'[page_url.id].cards)
                        /\ processed_pages' = processed_pages \cup {page_url}
                        /\ browserAt' = page_url
                        /\ UNCHANGED <<hvFailed, listingError>>
                   \/ /\ hvFailed' = TRUE
                      /\ listingError' = TRUE
                      /\ browserAt' = page_url
                      /\ UNCHANGED <<site, all_card_urls, processed_pages>>
    /\ UNCHANGED <<hvParser, hvPc, max_records, collected, processed_urls,
                   card_urls_to_parse, current_page_number, current_search_page_url,
                   hvResult, visitLog, paginationInvoked, allVisitsOk,
                   discoveries, failedVisits>>

\* 2GIS: the pagination loop ends (links exhausted or enough card URLs);
\* with no card URL at all the run returns at once
GPaginationEnd ==
    /\ hvParser = "gis" /\ hvPc = "g_pages"
    /\ pagination_urls = <<>> \/ GPaginationBudgetReached
    /\ IF all_card_urls = {}
       THEN HvReturn("returned", collected)
       ELSE hvPc' = "g_visit" /\ UNCHANGED hvResult
    /\ UNCHANGED <<hvParser, site, max_records, collected, processed_urls,
                   processed_pages, all_card_urls, card_urls_to_parse,
                   pagination_urls, current_page_number, current_search_page_url,
                   visitLog, pageNavs, paginationInvoked, allVisitsOk, cycleGuardHit,
                   navAfterGuard, hvFailed,
                   browserAt, discoveries, failedVisits, listingError>>

\* 2GIS: Step 3, one card of card_urls (a list made from a set: any order):
\* navigate, read the API response or the HTML; the record is appended when
\* there is one; an error is logged
GVisit ==
    /\ hvParser = "gis" /\ hvPc = "g_visit"
    /\ all_card_urls # {}
    /\ ~GVisitBudgetReached
    /\ \E card_url \in all_card_urls :
        /\ all_card_urls' = all_card_urls \ {card_url}
        /\ IF card_url \in processed_urls
           THEN UNCHANGED <<processed_urls, visitLog, collected, allVisitsOk, hvFailed,
                            failedVisits, browserAt>>
           ELSE /\ processed_urls' = processed_urls \cup {card_url}
                /\ visitLog' = Append(visitLog, card_url)
                /\ \/ /\ collected' = Append(collected, card_url)
                      /\ browserAt' = card_url
                      /\ UNCHANGED <<allVisitsOk, hvFailed, failedVisits>>
                   \/ /\ allVisitsOk' = FALSE
                      /\ hvFailed' \in {hvFailed, TRUE}
                      /\ failedVisits' = failedVisits \cup {card_url}
                      /\ browserAt' = card_url
                      /\ UNCHANGED collected
    /\ UNCHANGED <<hvParser, hvPc, site, max_records, processed_pages,
                   card_urls_to_parse, pagination_urls, current_page_number,
                   current_search_page_url, hvResult, pageNavs, paginationInvoked,
                   cycleGuardHit, navAfterGuard,
                   discoveries, listingError>>

\* 2GIS: the visit loop ends; total_cards_found = len(card_data_list) and
\* parse returns the cards
GVisitsEnd ==
    /\ hvParser = "gis" /\ hvPc = "g_visit"
    /\ all_card_urls = {} \/ GVisitBudgetReached
    /\ HvReturn("returned", collected)
    /\ UNCHANGED <<hvParser, site, max_records, collected, processed_urls,
                   processed_pages, all_card_urls, card_urls_to_parse,
                   pagination_urls, current_page_number, current_search_page_url,
                   visitLog, pageNavs, paginationInvoked, allVisitsOk,
                   cycleGuardHit, navAfterGuard, hvFailed,
                   browserAt, discoveries, failedVisits, listingError>>

HvStep ==
    \/ YNavigateSearch \/ YPageNoCollect \/ YPageCollect \/ YVisit \/ YVisitsEnd
    \/ YPaginate \/ YParseReturns \/ YParseExcept
    \/ GNavigateInitial \/ GFirstPage \/ GPaginationPage \/ GPaginationEnd
    \/ GVisit \/ GVisitsEnd

HvNext == HvStep /\ UNCHANGED <<ldVars, rvVars, agVars, cdVars, lcVars, jbVars, cpVars, tkVars, cbVars>>

SpecHarvest == HvInit /\ [][HvNext]_vars

\* the run is one sequential call of parse(): a step that can be taken is taken
SpecHarvestFair == SpecHarvest /\ WF_vars(HvNext)

(***************************************************************************)
(* Claims about the harvest orchestrator                                   *)
(***************************************************************************)
\* C3: within one run each CardLink is navigated to as a detail page at most
\* once, two links being the same CardLink when their URLs are equal after
\* the query string is stripped; this holds across all listing pages.
C3_EachCardLinkVisitedOnce ==
    \A i \in 1..Len(visitLog), j \in 1..Len(visitLog) :
        i # j => StripQuery(visitLog[i]) # StripQuery(visitLog[j])

\* C4: no card visit starts in a state where the number of completed
\* CardRecords is already max_records or more, and the number of completed
\* CardRecords (what the run returns) never exceeds max_records.
C4_VisitsStopAtMaxRecords ==
    [][ /\ (visitLog' # visitLog => Len(collected) < max_records)
        /\ Len(collected') <= max_records
        /\ Len(hvResult'.cards) <= max_records ]_vars

\* a finished run that returned exactly max_records cards (at least one) and
\* left collected card links unvisited
C4_Witness ==
    /\ hvPc = "done" /\ max_records > 0
    /\ Len(hvResult.cards) = max_records
    /\ all_card_urls # {}

\* the scenario of C5: max_records = 2, listing page 1 shows five distinct
\* card links, every visit so far succeeded and nothing raised
C5Scenario ==
    /\ max_records = 2
    /\ site[1].seen /\ site[1].cards = PageCards(1, 5, FALSE)
    /\ allVisitsOk /\ ~hvFailed

C6_CycleGuard ==
    /\ ~navAfterGuard
    /\ \A i \in 1..Len(pageNavs) :
         /\ pageNavs[i] # 1
         /\ \A j \in 1..Len(pageNavs) : i # j => pageNavs[i] # pageNavs[j]

\* C7: a navigation, scripting or extraction error never costs the run its
\* completed cards: parse returns every CardRecord completed so far and a
\* summary whose card total is exactly their number.
C7_FailureKeepsCompletedCards ==
    hvPc = "done" =>
      /\ hvResult.cards = collected
      /\ hvResult.total = Len(collected)

\* C25: every next-page discovery runs with the browser on the listing page
\* that produced the batch of links just processed (the orchestrator went
\* back to it), never on a card page or on another listing page.
C25_DiscoveryOnBatchPage ==
    \A d \in discoveries : d.at = d.batch /\ d.at.kind = "list"

\* a Yandex run that visited a card of the second listing page and then ran
\* the discovery for that page
C25_Witness ==
    /\ hvParser = "yandex" /\ visitLog # <<>>
    /\ browserAt.kind = "list"
    /\ \E d \in discoveries : d.batch = List(2)
    /\ \E i \in 1..Len(visitLog), k \in 1..Len(site[2].cards) :
          visitLog[i] = site[2].cards[k]

\* the number of navigations to the card URL u
VisitsOf(log, u) == Cardinality({i \in 1..Len(log) : log[i] = u})

\* C27: a failed card visit is skipped and not retried: its URL is navigated
\* to exactly once in the run, no CardRecord is collected for it, and the
\* step that fails leaves the run in its visit loop with only that link
\* removed from the links still to visit.
C27_FailedVisitSkipped ==
    [][ /\ \A u \in failedVisits' :
              /\ VisitsOf(visitLog', u) = 1
              /\ \A i \in 1..Len(collected') : collected'[i] # u
        /\ (failedVisits' # failedVisits) =>
              /\ hvPc' = hvPc /\ hvPc' \in {"y_visit", "g_visit"}
              /\ hvResult' = hvResult
              /\ collected' = collected
              /\ hvParser = "yandex" => card_urls_to_parse' = Tail(card_urls_to_parse)
              /\ hvParser = "gis" =>
                    all_card_urls' = all_card_urls \ (failedVisits' \ failedVisits) ]_vars

\* a run in which a visit failed and a later visit produced a CardRecord
C27_Witness ==
    \E i \in 1..Len(visitLog), j \in 1..Len(visitLog) :
        /\ i < j
        /\ visitLog[i] \in failedVisits
        /\ \E k \in 1..Len(collected) : collected[k] = visitLog[j]

\* C28: an error while a listing page is loaded (the first page, the page
\* gone back to for pagination, or a next page) makes the orchestrator skip
\* that page and go on: the step in which it happens does not end the
\* harvest, and the run returns every card collected.
C28_ListingErrorSkipsPage ==
    [][ /\ (listingError' /\ ~listingError) =>
              hvPc' \notin {"done", "y_return", "y_raised"}
        /\ (listingError' /\ hvPc' = "done") => hvResult'.cards = collected' ]_vars

\* the discovery found no page that is left to load
NoneDiscovered ==
    /\ paginationInvoked
    /\ hvParser = "yandex" =>
          (site[current_search_page_url].next = 0 \/ cycleGuardHit)
    /\ hvParser = "gis" =>
          /\ \A i \in 1..Len(pagination_urls) : pagination_urls[i] \in processed_pages
          /\ all_card_urls = {}

\* the first listing page showed no link and nothing was collected
NoResults ==
    /\ site[1].seen /\ site[1].cards = <<>>
    /\ collected = <<>> /\ visitLog = <<>>
    /\ current_page_number = 1

\* C30: the harvest ends only on a terminal condition: max_records reached,
\* no further page discovered, or the no-results case; otherwise it does not
\* stop while links or pages remain.
C30_StopsOnlyAtTerminalCondition ==
    hvPc = "done" =>
      \/ Len(collected) >= max_records
      \/ NoneDiscovered
      \/ NoResults

\* C37: a harvest run terminates on every finite site whatever the
\* next-page links point to: the page loop moves to a next page at most once
\* per listing page of the site, so links that lead back to an earlier page
\* cannot keep it running, and the run reaches its end.
C37_HarvestTerminates ==
    [](Len(pageNavs) <= NPages) /\ <>(hvPc = "done")

\* a run that ended after it followed a next-page link and then met a link
\* that leads back to a page it had moved to before
C37_Witness ==
    /\ hvPc = "done" /\ pageNavs # <<>> /\ cycleGuardHit
    /\ \E p \in Pages : site[p].next \in 1..p

\* C38: no listing page is scroll-harvested more than once in a run: every
\* listing URL that was loaded and harvested, the initial search URL
\* included, is in the visited set, so a next-page link back to it is
\* rejected and the page is not harvested again.
C38_ListingHarvestedOnce ==
    [][ /\ (hvParser = "yandex" /\ hvPc = "y_loop" /\ hvPc' = "y_visit")
            => ~site[current_search_page_url].seen
        /\ \A p \in Pages :
              (hvParser = "gis" /\ List(p) \in processed_pages'
                 /\ List(p) \notin processed_pages) => ~site[p].seen ]_vars

\* the card link u was navigated to (under any query string)
Visited(u) == \E i \in 1..Len(visitLog) : StripQuery(visitLog[i]) = StripQuery(u)

\* C31: a run that ends with fewer than max_records cards and met no error
\* has visited every card link of every listing page it harvested: a link
\* cut off by the budget at collection time is not lost when an earlier
\* visit yields no CardRecord.
C31_NoLinkLostToTruncation ==
    (hvPc = "done" /\ ~hvFailed /\ Len(hvResult.cards) < max_records) =>
        \A p \in Pages : site[p].seen =>
            \A k \in 1..Len(site[p].cards) : Visited(site[p].cards[k])


(***************************************************************************)
(* ReviewExtractor: _get_card_reviews_info of both parsers                 *)
(***************************************************************************)
\* if 1.0 <= rating_value <= 5.0
InRange(v) == 1 <= v /\ v <= 5

\* The rating signals of a review node, in whole stars (0: the signal is
\* absent): attr is data-rating/data-score/data-value of the node, cls the
\* digit after rating/star in its class, elData the data-rating of its
\* rating element, elText the first [1-5] number in that element's text,
\* elStars the star glyphs in that text, fullNum the first number before a
\* star word in the node's whole text, extraStars the star glyphs of the
\* whole text outside the rating element; svg the SVG elements of a 2GIS
\* node and filled the filled count of its first star container.
YandexNodes ==
    [attr : {0, 5, 7}, cls : {0, 4, 9}, svg : {0}, filled : {0}, elData : {0, 3, 8},
     elText : {0, 2}, elStars : {0, 1, 6}, fullNum : {0, 4}, extraStars : {0, 2}]

GisNodes ==
    {n \in [attr : {0}, cls : {0}, svg : {0, 3, 5, 6}, filled : {0, 4, 7},
            elData : {-1, 0, 2, 8}, elText : {0, 3}, elStars : {0}, fullNum : {0},
            extraStars : {0}] : n.filled > 0 => n.svg > 0}

\* the review text found for a node: none (or too short), or one of two texts
Texts == {"", "a", "b"}
\* the digit before a star word in the review text (-1: no such digit)
TextDigits == {-1, 0, 3, 9}
Authors == {"", "u"}

\* Yandex Method 1: rating_value = float(card_data_rating) when the
\* attribute is there (the range test only logs)
YMethod1(n) == n.attr

\* Yandex Method 2: the class digit, tried when rating_value == 0.0
YMethod2(v, n) == IF v = 0 THEN n.cls ELSE v

\* Yandex Method 3: the rating element, tried when rating_value == 0.0:
\* data-rating is assigned and ends the search when in range; then the text
\* number, then the star glyphs of the text (1 to 5) end it
YMethod3(v, n) ==
    IF v # 0 THEN v
    ELSE IF InRange(n.elData) THEN n.elData
    ELSE IF n.elText # 0 THEN n.elText
    ELSE IF n.elStars > 0 /\ n.elStars <= 5 THEN n.elStars
    ELSE n.elData

\* Yandex Method 4: the whole text, tried when rating_value == 0.0: the
\* number before a star word, else the count of star glyphs when 1 to 5
YMethod4(v, n) ==
    IF v # 0 THEN v
    ELSE IF n.fullNum # 0 THEN n.fullNum
    ELSE IF n.elStars + n.extraStars > 0 /\ n.elStars + n.extraStars <= 5
         THEN n.elStars + n.extraStars
    ELSE 0

YandexRating(n) == YMethod4(YMethod3(YMethod2(YMethod1(n), n), n), n)

\* 2GIS, the SVG stars: the filled count of the star container when 1 to 5;
\* else with exactly five SVG elements every one of them counts as filled;
\* else the number of SVG elements when 1 to 5
GisSvgRating(n) ==
    IF n.svg = 0 THEN 0
    ELSE IF n.filled > 0 /\ n.filled <= 5 THEN n.filled
    ELSE IF n.svg = 5 THEN 5
    ELSE IF n.svg > 0 /\ n.svg <= 5 THEN n.svg
    ELSE 0

\* 2GIS, the rating selectors, tried when rating_value == 0.0: data-rating
\* is assigned and ends the search when in range; then the text number
GisSelectorRating(v, n) ==
    IF v # 0 THEN v
    ELSE IF InRange(n.elData) THEN n.elData
    ELSE IF n.elText # 0 THEN n.elText
    ELSE n.elData

GisRating(n) == GisSelectorRating(GisSvgRating(n), n)

\* the steps of the chain in the order the code tries them, each with the
\* value it reads
ChainLevels(parser, n) ==
    IF parser = "yandex"
    THEN <<n.attr, n.cls, n.elData, n.elText, n.elStars, n.fullNum,
           n.elStars + n.extraStars>>
    ELSE <<n.filled, IF n.svg = 5 THEN 5 ELSE 0, n.svg, n.elData, n.elText>>

RvInit ==
    /\ LdIdle
    /\ HvIdle
    /\ AgIdle
    /\ CdIdle
    /\ LcIdle
    /\ JbIdle
    /\ CpIdle
    /\ TkIdle
    /\ CbIdle
    /\ rvParser \in {"yandex", "gis"}
    /\ rvPc = "count"
    /\ node = NoSignal
    /\ rating_value = 0
    /\ details = <<>>
    /\ positive_reviews = 0
    /\ negative_reviews = 0
    /\ reviews_count = 0
    /\ reviews_count_total \in 0..MaxPageCounter
    /\ seen_reviews = {}
    /\ rvNodes = 0

\* the page counter is read; Yandex returns at once when it is 0
RvCount ==
    /\ rvPc = "count"
    /\ rvPc' = IF rvParser = "yandex" /\ reviews_count_total = 0 THEN "done" ELSE "nodes"
    /\ UNCHANGED <<rvParser, node, rating_value, details, positive_reviews,
                   negative_reviews, reviews_count, reviews_count_total,
                   seen_reviews, rvNodes>>

\* the next review node: its rating is resolved by the parser's chain
RvResolve ==
    /\ rvPc = "nodes"
    /\ rvNodes < MaxReviewNodes
    /\ rvNodes' = rvNodes + 1
    /\ \E n \in (IF rvParser = "yandex" THEN YandexNodes ELSE GisNodes) :
        /\ node' = n
        /\ rating_value' = IF rvParser = "yandex" THEN YandexRating(n) ELSE GisRating(n)
    /\ rvPc' = "resolved"
    /\ UNCHANGED <<rvParser, details, positive_reviews, negative_reviews,
                   reviews_count, reviews_count_total, seen_reviews>>

\* the node is dropped (duplicate, filtered, or its processing raised)
RvDrop(seen) ==
    /\ seen_reviews' = seen
    /\ UNCHANGED <<details, positive_reviews, negative_reviews>>

\* Yandex: the rest of the node: text, dedup on (text, rating), a second
\* look for a digit in the text when the rating is 0, the append, the buckets
YKeep ==
    /\ rvParser = "yandex" /\ rvPc = "resolved"
    /\ \/ RvDrop(seen_reviews)
       \/ \E review_text \in Texts, d \in TextDigits :
            LET review_key == <<review_text, rating_value, "">>
                r == IF rating_value = 0 /\ review_text # "" /\ d # -1
                     THEN d ELSE rating_value
            IN  IF review_key \in seen_reviews
                THEN RvDrop(seen_reviews)
                ELSE /\ seen_reviews' = seen_reviews \cup {review_key}
                     /\ details' = Append(details,
                            [rating |-> r,
                             text |-> IF review_text = "" THEN "no_text" ELSE review_text])
                     /\ positive_reviews' =
                            positive_reviews + (IF r >= 4 /\ r <= 5 THEN 1 ELSE 0)
                     /\ negative_reviews' =
                            negative_reviews + (IF ~(r >= 4 /\ r <= 5) /\ r > 0 /\ r < 4
                                                THEN 1 ELSE 0)
    /\ node' = NoSignal /\ rating_value' = 0
    /\ rvPc' = "nodes"
    /\ UNCHANGED <<rvParser, reviews_count, reviews_count_total, rvNodes>>

\* 2GIS: the rest of the node: text, the two filters, dedup on
\* (text hash, rating, author), the append, the buckets
GKeep ==
    /\ rvParser = "gis" /\ rvPc = "resolved"
    /\ \/ RvDrop(seen_reviews)
       \/ \E review_text \in Texts, author_name \in Authors :
            LET review_key == <<review_text, rating_value, author_name>>
            IN  IF rating_value = 0 /\ review_text = ""
                THEN RvDrop(seen_reviews)
                ELSE IF review_key \in seen_reviews
                THEN RvDrop(seen_reviews)
                ELSE /\ seen_reviews' = seen_reviews \cup {review_key}
                     /\ details' = Append(details,
                            [rating |-> rating_value, text |-> review_text])
                     /\ positive_reviews' =
                            positive_reviews
                              + (IF rating_value > 0 /\ rating_value >= 4 THEN 1 ELSE 0)
                     /\ negative_reviews' =
                            negative_reviews
                              + (IF rating_value > 0 /\ ~(rating_value >= 4) THEN 1 ELSE 0)
    /\ node' = NoSignal /\ rating_value' = 0
    /\ rvPc' = "nodes"
    /\ UNCHANGED <<rvParser, reviews_count, reviews_count_total, rvNodes>>

\* after the last node: reviews_count = len(details), or the page counter
\* when no review was kept and the counter is positive
ReviewsCountPageFirst(kept, total) == IF total > 0 THEN total ELSE kept

ReviewsCount(kept, total) == IF kept = 0 /\ total > 0 THEN total ELSE kept

RvFinish ==
    /\ rvPc = "nodes"
    /\ reviews_count' = ReviewsCount(Len(details), reviews_count_total)
    /\ rvPc' = "done"
    /\ UNCHANGED <<rvParser, node, rating_value, details, positive_reviews,
                   negative_reviews, reviews_count_total, seen_reviews, rvNodes>>

RvStep == RvCount \/ RvResolve \/ YKeep \/ GKeep \/ RvFinish

RvNext == RvStep /\ UNCHANGED <<ldVars, hvVars, agVars, cdVars, lcVars, jbVars, cpVars, tkVars, cbVars>>

SpecReviews == RvInit /\ [][RvNext]_vars

(***************************************************************************)
(* Claims about the review extractor                                       *)
(***************************************************************************)
\* the number of kept reviews whose rating is 0
ZeroRated == Cardinality({i \in 1..Len(details) : details[i].rating = 0})

\* C8: for the set of ReviewRecords extracted for a card (at least one),
\* positiveReviews + negativeReviews + the number of reviews with
\* rating == 0 equals reviewsCount.
C8_ClassificationPartition ==
    (rvPc = "done" /\ details # <<>>) =>
        positive_reviews + negative_reviews + ZeroRated = reviews_count

\* the value of the first step of the chain that is in range, 0 when none is
RECURSIVE FirstInRange(_)
FirstInRange(levels) ==
    IF levels = <<>> THEN 0
    ELSE IF InRange(Head(levels)) THEN Head(levels)
    ELSE FirstInRange(Tail(levels))

\* C9: the rating resolved for a review node is the value of the first step
\* of the ordered chain that produces an in-range value (so a node with a
\* signal at level k only resolves to the value at level k), and 0 when no
\* step does.
C9_FirstInRangeStepWins ==
    rvPc = "resolved" => rating_value = FirstInRange(ChainLevels(rvParser, node))

\* C15: the reviews count of a card equals the number of the reviews
\* extracted for it, or the page-level counter when the extraction
\* undercounts; it takes no other value.
C15_ReviewsCountSource ==
    rvPc = "done" =>
        \/ reviews_count = Len(details)
        \/ Len(details) < reviews_count_total /\ reviews_count = reviews_count_total

\* review nodes were processed, none was kept, and the page counter is used
C15_Witness ==
    /\ rvPc = "done" /\ rvNodes > 0 /\ details = <<>>
    /\ reviews_count_total > 0 /\ reviews_count = reviews_count_total

\* C32: the rating stored in every ReviewRecord is 0 or lies in [1, 5]: no
\* step of the rating chain and no later look for a digit in the review
\* text leaves an out-of-range value in a kept record.
C32_StoredRatingInRange ==
    \A i \in 1..Len(details) : details[i].rating = 0 \/ InRange(details[i].rating)

\* C33: a review is kept only if its rating is above 0 or it has a
\* non-trivial text: no record with rating 0 and no text is among the kept
\* reviews (which reviews_count counts).
C33_NoEmptyReviewKept ==
    \A i \in 1..Len(details) :
        details[i].rating > 0 \/ details[i].text \notin {"", "no_text"}

\* C34: within one extraction pass no two kept records share the stored
\* rating and the (first 100 normalized characters of the) text.
C34_NoDuplicateKept ==
    \A i, j \in 1..Len(details) :
        (details[i].rating = details[j].rating /\ details[i].text = details[j].text)
            => i = j

(***************************************************************************)
(* Aggregator: _update_aggregated_data and the summary parse() returns     *)
(***************************************************************************)
\* card_rating as the card carries it: absent (''), a number written with a
\* dot or given as a number ("4.5"), the same written with a comma ("4,5"),
\* or text that is no number; val is the number in hundredths of a star
CardRatings ==
    {[kind |-> "absent", val |-> 0], [kind |-> "junk", val |-> 0]}
      \cup [kind : {"dot", "comma"}, val : {300, 450, 500}]

\* the review figures a card carries: card_reviews_count (as many detailed
\* reviews), _positive, _negative, the answered reviews, the days between
\* review and response of the detailed reviews that have both dates
\* (times), and the card's own average response time in hundredths of a
\* day (avg_days)
CardBodies ==
    {[reviews_count |-> 0, positive |-> 0, negative |-> 0, answered |-> 0,
      times |-> <<>>, avg_days |-> 0],
     [reviews_count |-> 2, positive |-> 1, negative |-> 1, answered |-> 1,
      times |-> <<30>>, avg_days |-> 3000],
     [reviews_count |-> 3, positive |-> 2, negative |-> 0, answered |-> 2,
      times |-> <<30, 90>>, avg_days |-> 6000]}

\* the cards of the runs: every rating on one body, every body on one rating
CardRecords ==
    {[rating |-> r, body |-> b] :
        r \in CardRatings,
        b \in {c \in CardBodies : c.reviews_count = 2}}
      \cup {[rating |-> [kind |-> "dot", val |-> 450], body |-> b] : b \in CardBodies}

\* the cards of a Yandex run: card_answered_reviews_count is the number of
\* response elements of the card page, whatever card_reviews_count is, so
\* a card can carry more answered reviews than reviews
YandexCardRecords ==
    CardRecords
      \cup {[rating |-> [kind |-> "dot", val |-> 450],
             body |-> [reviews_count |-> 1, positive |-> 1, negative |-> 0,
                       answered |-> 2, times |-> <<>>, avg_days |-> 0]]}

\* the float a parser reads from card_rating, -1 when the card is skipped:
\* `if rating_str:` drops the absent rating; float() raises on text that is
\* no number; Yandex replaces ',' by '.' first, 2GIS does not
ParseRating(parser, r) ==
    IF r.kind = "absent" \/ r.kind = "junk" THEN -1
    ELSE IF r.kind = "comma" /\ parser = "gis" THEN -1
    ELSE r.val

\* round(num / den, 2) for a quotient in hundredths: to the nearest
\* hundredth, a tie to the even one
Round2(num, den) ==
    LET q == num \div den
        r == num % den
    IN  IF 2 * r < den THEN q
        ELSE IF 2 * r > den THEN q + 1
        ELSE IF q % 2 = 0 THEN q ELSE q + 1

\* card_avg_response_time in hundredths: Yandex carries days, 2GIS converts
\* the days to months, round(days / 30.0, 2); 0 stands for ''
CardAvgResponseTime(parser, card) ==
    IF parser = "gis" THEN Round2(card.body.avg_days, 30) ELSE card.body.avg_days

\* Yandex card_unanswered_reviews_count
CardUnanswered(card) ==
    Max2(0, card.body.reviews_count - card.body.answered)

RECURSIVE SumParsed(_, _)
SumParsed(parser, cs) ==
    IF cs = <<>> THEN 0
    ELSE (IF ParseRating(parser, Head(cs).rating) >= 0
          THEN ParseRating(parser, Head(cs).rating) ELSE 0)
           + SumParsed(parser, Tail(cs))

CountParsed(parser, cs) ==
    Cardinality({i \in 1..Len(cs) : ParseRating(parser, cs[i].rating) >= 0})

RECURSIVE SumSeq(_)
SumSeq(s) == IF s = <<>> THEN 0 ELSE Head(s) + SumSeq(Tail(s))

AgInit ==
    /\ LdIdle
    /\ HvIdle
    /\ RvIdle
    /\ CdIdle
    /\ LcIdle
    /\ JbIdle
    /\ CpIdle
    /\ TkIdle
    /\ CbIdle
    /\ agParser \in {"yandex", "gis"}
    /\ agPc = "fold"
    /\ AgZero

\* 2GIS _update_aggregated_data on the summary s: the first rating is taken
\* as it is, a later one enters the mean only when total_cards_found > 0; the
\* counts are added; a card with a response time appends the days of each of
\* its reviews that has a response and both dates
GisUpdated(s, card) ==
    LET rating_float == ParseRating("gis", card.rating)
        total_cards == s.total_cards_found
        b == card.body
    IN  [s EXCEPT
           !.aggregated_rating =
               IF rating_float < 0 THEN @
               ELSE IF @.num = 0 THEN [num |-> rating_float, den |-> 1]
               ELSE IF total_cards > 0
                    THEN [num |-> @.num * total_cards + rating_float * @.den,
                          den |-> @.den * (total_cards + 1)]
               ELSE @,
           !.sums =
               [reviews |-> @.reviews + b.reviews_count,
                positive |-> @.positive + b.positive,
                negative |-> @.negative + b.negative,
                answered |-> @.answered + b.answered,
                unanswered |-> @.unanswered + (b.reviews_count - b.answered)],
           !.response_times_list =
               IF CardAvgResponseTime("gis", card) > 0 THEN @ \o b.times ELSE @]

\* 2GIS, after the visit loop, on the summary s of n cards:
\* total_cards_found = len(card_data_list); the response time is the mean of
\* response_times_list in months, rounded, and the list is deleted;
\* aggregated_rating is rounded to two places when positive
GisExported(s, n) ==
    [s EXCEPT
       !.total_cards_found = n,
       !.avg = IF s.response_times_list # <<>>
               THEN Round2(100 * SumSeq(s.response_times_list),
                           30 * Len(s.response_times_list))
               ELSE 0,
       !.response_times_list = <<>>,
       !.aggregated_rating = IF @.num > 0
                             THEN [num |-> Round2(@.num, @.den), den |-> 1]
                             ELSE @]

\* aggregated_info of the 2GIS run as one value
GisSummary ==
    [aggregated_rating |-> aggregated_rating,
     total_cards_found |-> total_cards_found,
     sums |-> aggregated_info,
     response_times_list |-> response_times_list,
     avg |-> aggregated_avg_response_time]

\* the 2GIS run's aggregated_info becomes s
GisStore(s) ==
    /\ aggregated_rating' = s.aggregated_rating
    /\ total_cards_found' = s.total_cards_found
    /\ aggregated_info' = s.sums
    /\ response_times_list' = s.response_times_list
    /\ aggregated_avg_response_time' = s.avg
    /\ exported_rating' = IF agPc' = "done" THEN s.aggregated_rating.num ELSE exported_rating

GisUpdateAggregatedData ==
    /\ agParser = "gis" /\ agPc = "fold"
    /\ Len(agCards) < MaxCards
    /\ \E card \in CardRecords :
        /\ agCards' = Append(agCards, card)
        /\ agPc' = agPc
        /\ GisStore(GisUpdated(GisSummary, card))
    /\ UNCHANGED <<agParser, total_rating_sum, total_response_time, agExportedAt>>

GisExport ==
    /\ agParser = "gis" /\ agPc = "fold"
    /\ agPc' = "done"
    /\ GisStore(GisExported(GisSummary, Len(agCards)))
    /\ UNCHANGED <<agParser, agCards, total_rating_sum, total_response_time, agExportedAt>>

\* Yandex _update_aggregated_data: total_rating_sum grows by the rating when
\* the string is a number, by 0.0 otherwise; the counts are added; a card
\* with a positive response time adds it as one sample
YandexUpdateAggregatedData ==
    /\ agParser = "yandex" /\ agPc = "fold"
    /\ Len(agCards) < MaxCards
    /\ \E card \in YandexCardRecords :
        LET b == card.body
            response_time_days == CardAvgResponseTime("yandex", card)
        IN  /\ agCards' = Append(agCards, card)
            /\ total_rating_sum' =
                 total_rating_sum
                   + (IF ParseRating("yandex", card.rating) >= 0
                      THEN ParseRating("yandex", card.rating) ELSE 0)
            /\ aggregated_info' =
                 [reviews |-> aggregated_info.reviews + b.reviews_count,
                  positive |-> aggregated_info.positive + b.positive,
                  negative |-> aggregated_info.negative + b.negative,
                  answered |-> aggregated_info.answered + b.answered,
                  unanswered |-> aggregated_info.unanswered
                                   + Max2(0, b.reviews_count - b.answered)]
            /\ total_response_time' =
                 IF response_time_days > 0
                 THEN [sum |-> total_response_time.sum + response_time_days,
                       count |-> total_response_time.count + 1]
                 ELSE total_response_time
    /\ UNCHANGED <<agParser, agPc, aggregated_rating, total_cards_found,
                   exported_rating, response_times_list,
                   aggregated_avg_response_time, agExportedAt>>

\* the sums parse() takes over the collected cards
RECURSIVE YandexSums(_)
YandexSums(cs) ==
    IF cs = <<>> THEN ZeroSums
    ELSE LET t == YandexSums(Tail(cs))
             b == Head(cs).body
         IN  [reviews |-> b.reviews_count + t.reviews,
              positive |-> b.positive + t.positive,
              negative |-> b.negative + t.negative,
              answered |-> b.answered + t.answered,
              unanswered |-> CardUnanswered(Head(cs)) + t.unanswered]

\* the response times parse() takes over the collected cards: the sum and
\* the number of the cards whose card_avg_response_time is positive
RECURSIVE YandexResponseTimes(_)
YandexResponseTimes(cs) ==
    IF cs = <<>> THEN [sum |-> 0, count |-> 0]
    ELSE LET t == YandexResponseTimes(Tail(cs))
             v == CardAvgResponseTime("yandex", Head(cs))
         IN  IF v > 0 THEN [sum |-> t.sum + v, count |-> t.count + 1] ELSE t

\* Yandex parse() after _parse_cards, leaving the run at pc: with no card the
\* zero summary; otherwise every figure is taken again from the collected
\* cards, the rating as the mean of the ratings that parse and the response
\* time as the mean over the cards that have one, both rounded to two places
YandexParseTail(pc) ==
    /\ agParser = "yandex" /\ agPc = "fold"
    /\ agPc' = pc
    /\ total_cards_found' = Len(agCards)
    /\ LET valid == CountParsed("yandex", agCards)
           rt == YandexResponseTimes(agCards)
       IN  IF agCards = <<>>
           THEN /\ exported_rating' = 0
                /\ aggregated_avg_response_time' = 0
                /\ UNCHANGED <<aggregated_info, total_response_time>>
           ELSE /\ exported_rating' =
                     IF valid = 0 THEN 0
                     ELSE Round2(SumParsed("yandex", agCards), valid)
                /\ aggregated_info' = YandexSums(agCards)
                /\ total_response_time' = rt
                /\ aggregated_avg_response_time' =
                     IF rt.count > 0 /\ rt.sum > 0 THEN Round2(rt.sum, rt.count) ELSE 0
    /\ UNCHANGED <<agParser, agCards, aggregated_rating, total_rating_sum,
                   response_times_list>>

YandexExport == YandexParseTail("done") /\ UNCHANGED agExportedAt

AgStep ==
    \/ GisUpdateAggregatedData \/ GisExport
    \/ YandexUpdateAggregatedData \/ YandexExport

AgNext == AgStep /\ UNCHANGED <<ldVars, hvVars, rvVars, cdVars, lcVars, jbVars, cpVars, tkVars, cbVars>>

SpecAgg == AgInit /\ [][AgNext]_vars

\* the operations of a partial run: the summary is exported after the cards
\* folded so far (once per card count) and further cards are folded into it
GisExportMidRun ==
    /\ agParser = "gis" /\ agPc = "fold"
    /\ Len(agCards) < MaxCards /\ Len(agCards) \notin agExportedAt
    /\ agPc' = "fold"
    /\ GisStore(GisExported(GisSummary, Len(agCards)))
    /\ agExportedAt' = agExportedAt \cup {Len(agCards)}
    /\ UNCHANGED <<agParser, agCards, total_rating_sum, total_response_time>>

YandexExportMidRun ==
    /\ Len(agCards) < MaxCards /\ Len(agCards) \notin agExportedAt
    /\ YandexParseTail("fold")
    /\ agExportedAt' = agExportedAt \cup {Len(agCards)}

AgPartialNext ==
    (AgStep \/ GisExportMidRun \/ YandexExportMidRun)
      /\ UNCHANGED <<ldVars, hvVars, rvVars, cdVars, lcVars, jbVars, cpVars, tkVars, cbVars>>

SpecAggPartial == AgInit /\ [][AgPartialNext]_vars

(***************************************************************************)
(* Claims about the aggregator                                             *)
(***************************************************************************)
\* C10: after folding any sequence of cards the summary counts them all and
\* its rating mean (reported to two decimal places) is the sum of the
\* ratings that are present and parse divided by the number of such cards;
\* cards without such a rating do not affect it (three cards rated 5 give
\* totalCards = 3 and a mean of 5.0).
C10_RatingMean ==
    (agPc = "done" /\ CountParsed(agParser, agCards) > 0) =>
        /\ total_cards_found = Len(agCards)
        /\ exported_rating =
             Round2(SumParsed(agParser, agCards), CountParsed(agParser, agCards))

\* the summary a run exports: the card count, the rating mean, the sums and
\* the response-time mean
AgExported ==
    [total |-> total_cards_found, rating |-> exported_rating,
     sums |-> aggregated_info, avg |-> aggregated_avg_response_time]

\* the summary 2GIS folds the cards cs into, starting from s
RECURSIVE GisFoldAll(_, _)
GisFoldAll(s, cs) ==
    IF cs = <<>> THEN s ELSE GisFoldAll(GisUpdated(s, Head(cs)), Tail(cs))

\* the summary exported after folding the cards cs in one go
OneGoExported(parser, cs) ==
    IF parser = "gis"
    THEN LET zero == [aggregated_rating |-> [num |-> 0, den |-> 1],
                      total_cards_found |-> 0, sums |-> ZeroSums,
                      response_times_list |-> <<>>, avg |-> 0]
             s == GisExported(GisFoldAll(zero, cs), Len(cs))
         IN  [total |-> s.total_cards_found, rating |-> s.aggregated_rating.num,
              sums |-> s.sums, avg |-> s.avg]
    ELSE LET rt == YandexResponseTimes(cs)
             valid == CountParsed("yandex", cs)
         IN  [total |-> Len(cs),
              rating |-> IF valid = 0 THEN 0 ELSE Round2(SumParsed("yandex", cs), valid),
              sums |-> YandexSums(cs),
              avg |-> IF rt.count > 0 THEN Round2(rt.sum, rt.count) ELSE 0]

C12_SummaryReflectsFoldedCards ==
    agPc = "fold" =>
        /\ total_cards_found = Len(agCards)
        /\ aggregated_info = YandexSums(agCards)

\* one sample per card that has a response time: their sum and their number
RECURSIVE CardLevelTimes(_, _)
CardLevelTimes(parser, cs) ==
    IF cs = <<>> THEN [sum |-> 0, count |-> 0]
    ELSE LET t == CardLevelTimes(parser, Tail(cs))
             v == CardAvgResponseTime(parser, Head(cs))
         IN  IF v > 0 THEN [sum |-> t.sum + v, count |-> t.count + 1] ELSE t

\* C13: the aggregate response-time mean is a mean over cards, not over
\* reviews: every folded card that has an average response time contributes
\* exactly one sample, its own average.
C13_ResponseTimeMeanOverCards ==
    agPc = "done" =>
        LET t == CardLevelTimes(agParser, agCards)
        IN  aggregated_avg_response_time =
              IF t.count > 0 THEN Round2(t.sum, t.count) ELSE 0

\* C39: for every CardRecord the answered and the unanswered reviews add up
\* to its reviews count, and the running sums of the summary add up the
\* same way.
C39_AnsweredPlusUnanswered ==
    /\ \A i \in 1..Len(agCards) :
          LET b == agCards[i].body
              unanswered == IF agParser = "yandex" THEN CardUnanswered(agCards[i])
                            ELSE b.reviews_count - b.answered
          IN  b.answered + unanswered = b.reviews_count
    /\ aggregated_info.answered + aggregated_info.unanswered = aggregated_info.reviews

(***************************************************************************)
(* 2GIS card assembly: the average response time of a card                 *)
(***************************************************************************)
\* the dates a review carries, as days of one month; 0 stands for ''
ReviewDays == {1, 4, 8}

\* the review details as far as the response time reads them: a review
\* without a response has no response date
ReviewDetails ==
    [has_response : {FALSE}, review_date : {0, 1}, response_date : {0}]
      \cup [has_response : {TRUE}, review_date : {0} \cup ReviewDays,
            response_date : {0} \cup ReviewDays]

CdInit ==
    /\ LdIdle
    /\ HvIdle
    /\ RvIdle
    /\ AgIdle
    /\ LcIdle
    /\ JbIdle
    /\ CpIdle
    /\ TkIdle
    /\ CbIdle
    /\ cdPc = "reviews"
    /\ cdDetails = <<>>
    /\ cdMetadataDays \in {NoApi, NoValue, 500}
    /\ avg_response_time_days = 0
    /\ card_avg_response_time = NoValue

\* _get_card_reviews_info appends the detail of one review
CdReview ==
    /\ cdPc = "reviews"
    /\ Len(cdDetails) < MaxCardReviews
    /\ \E d \in ReviewDetails : cdDetails' = Append(cdDetails, d)
    /\ UNCHANGED <<cdPc, cdMetadataDays, avg_response_time_days, card_avg_response_time>>

\* response_times of _get_card_reviews_info: the days between the dates of
\* the reviews that have a response, both dates, and a response after the
\* review
ResponseTimes(ds) ==
    SelectSeq([i \in 1..Len(ds) |->
                 IF ds[i].has_response /\ ds[i].review_date # 0
                      /\ ds[i].response_date # 0
                      /\ ds[i].response_date - ds[i].review_date > 0
                 THEN ds[i].response_date - ds[i].review_date
                 ELSE 0],
              LAMBDA x : x > 0)

\* _get_card_reviews_info after the reviews: the mean of response_times,
\* rounded to two places, 0.0 when there is none
CdAverage ==
    /\ cdPc = "reviews"
    /\ LET response_times == ResponseTimes(cdDetails)
       IN  avg_response_time_days' =
             IF response_times # <<>>
             THEN Round2(100 * SumSeq(response_times), Len(response_times))
             ELSE 0
    /\ cdPc' = "averaged"
    /\ UNCHANGED <<cdDetails, cdMetadataDays, card_avg_response_time>>

\* the card is built: with an API response the days are those of the reviews
\* when positive, else the metadata's; without one those of the reviews; the
\* card carries them converted to months, round(days / 30.0, 2), or ''
CdAssemble ==
    /\ cdPc = "averaged"
    /\ LET days == IF avg_response_time_days > 0 \/ cdMetadataDays = NoApi
                   THEN avg_response_time_days
                   ELSE cdMetadataDays
           avg_response_time_months ==
               IF days > 0 THEN Round2(days, 30) ELSE NoValue
       IN  card_avg_response_time' =
             IF avg_response_time_months # NoValue /\ avg_response_time_months # 0
             THEN avg_response_time_months ELSE NoValue
    /\ cdPc' = "card"
    /\ UNCHANGED <<cdDetails, cdMetadataDays, avg_response_time_days>>

CdNext ==
    (CdReview \/ CdAverage \/ CdAssemble)
      /\ UNCHANGED <<ldVars, hvVars, rvVars, agVars, lcVars, jbVars, cpVars, tkVars, cbVars>>

SpecCard == CdInit /\ [][CdNext]_vars

(***************************************************************************)
(* Claims about the card's response time                                   *)
(***************************************************************************)
\* C14: a card's average response time is the arithmetic mean, in days, of
\* (response date - review date) over its reviews that have both dates and a
\* response date after the review date; a card with no such review reports
\* no value rather than zero (a review of 2024-01-01 answered on 2024-01-04
\* gives 3.0).
C14_CardAvgResponseTimeDays ==
    cdPc = "card" =>
        card_avg_response_time =
            IF ResponseTimes(cdDetails) = <<>> THEN NoValue
            ELSE Round2(100 * SumSeq(ResponseTimes(cdDetails)),
                        Len(ResponseTimes(cdDetails)))

(***************************************************************************)
(* Link collection: 2GIS _get_links and the Yandex collection loop         *)
(***************************************************************************)
\* the cards further scrolling can add at the end of a page: none, new
\* cards, or a second link to the first card that differs in its query
ScrollExtensions ==
    {<<>>, <<Card(MaxPageCards + 1, 0)>>,
     <<Card(MaxPageCards + 1, 0), Card(MaxPageCards + 2, 0)>>, <<Card(1, 1)>>}

LcInit ==
    /\ LdIdle
    /\ HvIdle
    /\ RvIdle
    /\ AgIdle
    /\ CdIdle
    /\ JbIdle
    /\ CpIdle
    /\ TkIdle
    /\ CbIdle
    /\ lcParser \in {"yandex", "gis"}
    /\ lcPc = "start"
    /\ lcPage \in FirstPageCards
    /\ \E more \in ScrollExtensions : lcExtended = lcPage \o more
    /\ lcMax \in 0..(MaxPageCards + 2)
    /\ lcProcessed = {}
    /\ lcFirst = {}
    /\ lcSecond = {}
    /\ lcWide = {}

\* the links one collection of the page cards returns: 2GIS _get_links reads
\* the page only; the Yandex loop also reads and extends processed_urls
LcCollected(cards, processed) ==
    IF lcParser = "gis"
    THEN [urls |-> GisGetLinks(cards), processed |-> processed]
    ELSE LET got == YCollectUrls(cards, <<>>, processed, 0, lcMax)
         IN  [urls |-> {got.urls[i] : i \in 1..Len(got.urls)},
              processed |-> got.processed]

\* the page is collected for the first time
LcCollect ==
    /\ lcPc = "start"
    /\ lcFirst' = LcCollected(lcPage, {}).urls
    /\ lcProcessed' = LcCollected(lcPage, {}).processed
    /\ lcPc' = "once"
    /\ UNCHANGED <<lcParser, lcPage, lcExtended, lcMax, lcSecond, lcWide>>

\* the same page is collected again, nothing visited in between
LcCollectAgain ==
    /\ lcPc = "once"
    /\ lcSecond' = LcCollected(lcPage, lcProcessed).urls
    /\ lcProcessed' = LcCollected(lcPage, lcProcessed).processed
    /\ lcPc' = "twice"
    /\ UNCHANGED <<lcParser, lcPage, lcExtended, lcMax, lcFirst, lcWide>>

\* the extended page is collected by a run of its own
LcCollectExtended ==
    /\ lcPc = "once"
    /\ lcWide' = LcCollected(lcExtended, {}).urls
    /\ lcPc' = "wide"
    /\ UNCHANGED <<lcParser, lcPage, lcExtended, lcMax, lcProcessed, lcFirst, lcSecond>>

LcNext ==
    (LcCollect \/ LcCollectAgain \/ LcCollectExtended)
      /\ UNCHANGED <<ldVars, hvVars, rvVars, agVars, cdVars, jbVars, cpVars, tkVars, cbVars>>

SpecCollect == LcInit /\ [][LcNext]_vars

(***************************************************************************)
(* Claims about the link collection                                        *)
(***************************************************************************)
\* C16: collecting the links of the same unchanged listing page twice in a
\* row yields the same set of links both times.
C16_CollectIdempotent ==
    lcPc = "twice" => lcSecond = lcFirst

JbInit ==
    /\ LdIdle
    /\ HvIdle
    /\ RvIdle
    /\ AgIdle
    /\ CdIdle
    /\ LcIdle
    /\ CpIdle
    /\ TkIdle
    /\ CbIdle
    /\ jbPc = "start" /\ ywPc = "idle" /\ gwPc = "idle"
    /\ search_scope \in {"country", "city", ""}
    /\ yandex_min_cards_threshold \in {500, 5000}
    /\ settingsAccess = {}
    /\ yandex_future = Pending /\ gis_future = Pending
    /\ yandex_result = Pending /\ gis_result = Pending
    /\ statistics = [status |-> "none", total_cards_found |-> 0]

\* what a worker returns: (result, None) with the cards found, or (None, error)
WorkerReturns == [status : {"ok"}, cards : 0..MaxJobCards]
                   \cup {[status |-> "error", cards |-> 0]}

\* executor.submit(run_yandex_parser); executor.submit(run_gis_parser)
JbSubmit ==
    /\ jbPc = "start"
    /\ jbPc' = "wait_yandex" /\ ywPc' = "driver" /\ gwPc' = "driver"
    /\ UNCHANGED <<search_scope, yandex_min_cards_threshold, settingsAccess,
                   yandex_future, gis_future, yandex_result, gis_result, statistics>>

\* run_yandex_parser: SeleniumDriver(settings=settings); driver.start(),
\* which may raise; the except returns (None, error)
YwDriver ==
    /\ ywPc = "driver"
    /\ settingsAccess' = settingsAccess \cup {<<"yandex", "read">>}
    /\ \/ ywPc' = "configure" /\ UNCHANGED yandex_future
       \/ ywPc' = "returned" /\ yandex_future' = [status |-> "error", cards |-> 0]
    /\ UNCHANGED <<jbPc, gwPc, search_scope, yandex_min_cards_threshold,
                   gis_future, yandex_result, gis_result, statistics>>

\* run_yandex_parser: task_settings = settings (the same object); the
\* threshold of the scope is written into task_settings.parser
YwConfigure ==
    /\ ywPc = "configure"
    /\ yandex_min_cards_threshold' =
         IF search_scope = "country" THEN 5000
         ELSE IF search_scope = "city" THEN 500
         ELSE yandex_min_cards_threshold
    /\ settingsAccess' = settingsAccess \cup {<<"yandex", "write">>}
    /\ ywPc' = "parse"
    /\ UNCHANGED <<jbPc, gwPc, search_scope, yandex_future, gis_future,
                   yandex_result, gis_result, statistics>>

\* run_yandex_parser: YandexParser(driver, settings=task_settings) reads
\* settings.parser; parser.parse(url) returns or raises
YwParse ==
    /\ ywPc = "parse"
    /\ settingsAccess' = settingsAccess \cup {<<"yandex", "read">>}
    /\ yandex_future' \in WorkerReturns
    /\ ywPc' = "returned"
    /\ UNCHANGED <<jbPc, gwPc, search_scope, yandex_min_cards_threshold,
                   gis_future, yandex_result, gis_result, statistics>>

\* run_gis_parser: SeleniumDriver(settings=settings); driver.start()
GwDriver ==
    /\ gwPc = "driver"
    /\ settingsAccess' = settingsAccess \cup {<<"gis", "read">>}
    /\ \/ gwPc' = "parse" /\ UNCHANGED gis_future
       \/ gwPc' = "returned" /\ gis_future' = [status |-> "error", cards |-> 0]
    /\ UNCHANGED <<jbPc, ywPc, search_scope, yandex_min_cards_threshold,
                   yandex_future, yandex_result, gis_result, statistics>>

\* run_gis_parser: GisParser(driver, settings=settings) reads
\* settings.parser; parser.parse(url) returns or raises
GwParse ==
    /\ gwPc = "parse"
    /\ settingsAccess' = settingsAccess \cup {<<"gis", "read">>}
    /\ gis_future' \in WorkerReturns
    /\ gwPc' = "returned"
    /\ UNCHANGED <<jbPc, ywPc, search_scope, yandex_min_cards_threshold,
                   yandex_future, yandex_result, gis_result, statistics>>

\* (variant of FutureDone below: result() does not wait)
FutureDoneAlways(f) == TRUE

\* future.result() returns once the worker has returned
FutureDone(f) == f.status # "pending"

\* yandex_result, yandex_error = yandex_future.result()
JbJoinYandex ==
    /\ jbPc = "wait_yandex"
    /\ FutureDone(yandex_future)
    /\ yandex_result' = yandex_future
    /\ jbPc' = "wait_gis"
    /\ UNCHANGED <<ywPc, gwPc, search_scope, yandex_min_cards_threshold,
                   settingsAccess, yandex_future, gis_future, gis_result, statistics>>

\* gis_result, gis_error = gis_future.result()
JbJoinGis ==
    /\ jbPc = "wait_gis"
    /\ FutureDone(gis_future)
    /\ gis_result' = gis_future
    /\ jbPc' = "combine"
    /\ UNCHANGED <<ywPc, gwPc, search_scope, yandex_min_cards_threshold,
                   settingsAccess, yandex_future, gis_future, yandex_result, statistics>>

\* the results are combined and stored: each source that returned a result
\* adds its cards, a failed one is recorded as an error
JbCombine ==
    /\ jbPc = "combine"
    /\ statistics' =
         [status |-> "stored",
          total_cards_found |->
              (IF yandex_result.status = "ok" THEN yandex_result.cards ELSE 0)
                + (IF gis_result.status = "ok" THEN gis_result.cards ELSE 0)]
    /\ jbPc' = "done"
    /\ UNCHANGED <<ywPc, gwPc, search_scope, yandex_min_cards_threshold,
                   settingsAccess, yandex_future, gis_future, yandex_result, gis_result>>

JbNext ==
    (JbSubmit \/ YwDriver \/ YwConfigure \/ YwParse \/ GwDriver \/ GwParse
       \/ JbJoinYandex \/ JbJoinGis \/ JbCombine)
      /\ UNCHANGED <<ldVars, hvVars, rvVars, agVars, cdVars, lcVars, cpVars, tkVars, cbVars>>

SpecJob == JbInit /\ [][JbNext]_vars

(***************************************************************************)
(* Claims about the multi-source job                                       *)
(***************************************************************************)
\* C18: in a multi-source job the two runs share no mutable state: no
\* object written by one run, configuration objects included, is read or
\* written by the other run.
C18_RunsShareNoMutableState ==
    ~ \E a \in settingsAccess, b \in settingsAccess :
          a[2] = "write" /\ b[1] # a[1]

\* C19: the combined summary is computed only after both runs have finished
\* or failed: while a worker is still running the task thread has not
\* started to combine the results and no combined statistics are stored.
C19_CombinedAfterBothRuns ==
    (jbPc \in {"combine", "done"} \/ statistics.status # "none") =>
        /\ ywPc = "returned" /\ gwPc = "returned"
        /\ yandex_result = yandex_future /\ gis_result = gis_future

\* the statistics of a job are stored, one run failed and the other found cards
C19_Witness ==
    /\ jbPc = "done" /\ statistics.status = "stored"
    /\ yandex_result.status = "error"
    /\ gis_result.status = "ok" /\ statistics.total_cards_found > 0

(***************************************************************************)
(* Yandex check_captcha                                                    *)
(***************************************************************************)
\* the parser calls check_captcha after a navigation
CpInit ==
    /\ LdIdle
    /\ HvIdle
    /\ RvIdle
    /\ AgIdle
    /\ CdIdle
    /\ LcIdle
    /\ JbIdle
    /\ TkIdle
    /\ CbIdle
    /\ cpPc = "check"
    /\ cpDepth = 0
    /\ is_captcha = FALSE
    /\ cpNav = "none"
    /\ cpLanded = FALSE
    /\ cpRead = "none"

\* the page is read and searched for the CheckboxCaptcha or AdvancedCaptcha
\* div; without one the call, and with it every call below it, returns
CpCheck ==
    /\ cpPc = "check"
    /\ is_captcha' \in BOOLEAN
    /\ cpPc' = IF is_captcha' THEN "sleep" ELSE "returned"
    /\ UNCHANGED <<cpDepth, cpNav, cpLanded, cpRead>>

\* time.sleep(self._captcha_wait_time); self.check_captcha(): the code tests
\* no depth; the depth is followed up to MaxCaptchaDepth and is at least
\* that from then on
CpSleepAndRecurse ==
    /\ cpPc = "sleep"
    /\ cpDepth' = IF cpDepth < MaxCaptchaDepth THEN cpDepth + 1 ELSE cpDepth
    /\ cpPc' = "check"
    /\ UNCHANGED <<is_captcha, cpNav, cpLanded, cpRead>>

CpNext ==
    (CpCheck \/ CpSleepAndRecurse)
      /\ UNCHANGED <<ldVars, hvVars, rvVars, agVars, cdVars, lcVars, jbVars, tkVars, cbVars>>

\* the parser's thread keeps running: a step that can be taken is taken
SpecCaptcha == CpInit /\ [][CpNext]_vars /\ WF_vars(CpNext)

\* the parser is about to navigate
NvInit ==
    /\ LdIdle
    /\ HvIdle
    /\ RvIdle
    /\ AgIdle
    /\ CdIdle
    /\ LcIdle
    /\ JbIdle
    /\ TkIdle
    /\ CbIdle
    /\ cpPc = "navigate"
    /\ cpDepth = 0
    /\ is_captcha = FALSE
    /\ cpNav = "none"
    /\ cpLanded = FALSE
    /\ cpRead = "none"

\* one self.driver.navigate(...) of a Yandex run: to the search page, a card,
\* the card's reviews page, back to the search page, or the next page.  The
\* page that loads is a challenge page or not.  Every navigation of
\* _parse_cards is followed by self.check_captcha(); the navigation to the
\* reviews page in _get_card_reviews_info is followed by time.sleep(3) and
\* the page read
CpNavigate ==
    /\ cpPc = "navigate"
    /\ \E nav \in {"search", "card", "reviews", "back", "next"} :
        /\ cpNav' = nav
        /\ cpPc' = IF nav = "reviews" THEN "unchecked" ELSE "check"
    /\ cpLanded' \in BOOLEAN
    /\ cpDepth' = 0
    /\ UNCHANGED <<is_captcha, cpRead>>

\* the page is read for extraction: after check_captcha returned (its last
\* read found no challenge) the page is the content; without a check it is
\* whatever the navigation landed on
CpRead ==
    /\ cpPc \in {"returned", "unchecked"}
    /\ cpRead' = IF cpPc = "unchecked" /\ cpLanded THEN "challenge" ELSE "content"
    /\ cpPc' = "navigate"
    /\ UNCHANGED <<cpDepth, is_captcha, cpNav, cpLanded>>

NvNext ==
    (CpNavigate \/ CpCheck \/ CpSleepAndRecurse \/ CpRead)
      /\ UNCHANGED <<ldVars, hvVars, rvVars, agVars, cdVars, lcVars, jbVars, tkVars, cbVars>>

SpecNavigate == NvInit /\ [][NvNext]_vars

(***************************************************************************)
(* Claims about the CAPTCHA handling                                       *)
(***************************************************************************)
\* C20: the CAPTCHA handling is a bounded retry: the sleep-and-recheck cycle
\* is repeated at most a fixed number of times, so a challenge that never
\* clears cannot make the run wait or recurse forever: every check_captcha
\* call comes to an end.
C20_CaptchaCheckEnds == <>(cpPc = "returned")

\* C26: a challenge that shows after any navigation (search page, card
\* page, reviews page, back to the search page, next page) is waited out
\* before extraction goes on: no extraction reads a challenge page.
C26_NoExtractionFromChallengePage == cpRead # "challenge"

(***************************************************************************)
(* One task: start_parsing, run_both_parsers_task, run_parser_task         *)
(***************************************************************************)
\* start_parsing has stored TaskStatus(status='PENDING') and started the
\* task's thread
TkInit ==
    /\ LdIdle
    /\ HvIdle
    /\ RvIdle
    /\ AgIdle
    /\ CdIdle
    /\ LcIdle
    /\ JbIdle
    /\ CpIdle
    /\ CbIdle
    /\ tkTask \in {"both", "single"}
    /\ tkPc = "submitted"
    /\ status = "PENDING"
    /\ detailed_results = [status |-> "none", cards |-> 0]
    /\ result_file = "none"
    /\ error = "none"
    /\ user_email \in BOOLEAN
    /\ tkOutcome = <<>>
    /\ tkParsed = FALSE

\* the cards of the runs that returned a result
RECURSIVE CardsFound(_)
CardsFound(outcome) ==
    IF outcome = <<>> THEN 0
    ELSE (IF Head(outcome).status = "ok" THEN Head(outcome).cards ELSE 0)
           + CardsFound(Tail(outcome))

\* run_both_parsers_task: status = 'RUNNING'; the two workers run and both
\* futures are waited for (a worker returns its error, it never raises)
TbRun ==
    /\ tkTask = "both" /\ tkPc = "submitted"
    /\ status' = "RUNNING"
    /\ \E y \in WorkerReturns, g \in WorkerReturns : tkOutcome' = <<y, g>>
    /\ tkParsed' = TRUE
    /\ tkPc' = "save"
    /\ UNCHANGED <<tkTask, detailed_results, result_file, error, user_email, statistics>>

\* run_both_parsers_task: statistics and detailed_results are stored; with
\* cards the CSV file is written and result_file is set.  Creating the
\* writer, creating the directory or writing a record may raise: nothing in
\* the function catches it and the thread ends
TbSave ==
    /\ tkTask = "both" /\ tkPc = "save"
    /\ statistics' = [status |-> "stored", total_cards_found |-> CardsFound(tkOutcome)]
    /\ detailed_results' = [status |-> "stored", cards |-> CardsFound(tkOutcome)]
    /\ IF CardsFound(tkOutcome) > 0
       THEN \/ result_file' = "report.csv" /\ tkPc' = "complete"
            \/ tkPc' = "died" /\ UNCHANGED result_file
       ELSE tkPc' = "complete" /\ UNCHANGED result_file
    /\ UNCHANGED <<tkTask, status, error, user_email, tkOutcome, tkParsed>>

\* run_both_parsers_task: status = 'COMPLETED', then the notification
\* (whether it returns or raises, the thread ends)
TbComplete ==
    /\ tkTask = "both" /\ tkPc = "complete"
    /\ status' = "COMPLETED"
    /\ tkPc' = "ended"
    /\ UNCHANGED <<tkTask, detailed_results, result_file, error, user_email,
                   tkOutcome, tkParsed, statistics>>

\* run_parser_task: a new TaskStatus(status='RUNNING'); inside the try the
\* driver is started and the parser runs (either may raise); statistics and
\* detailed_results are stored; with cards the CSV file is written (which
\* may raise), without cards status = 'COMPLETED', the notification is
\* sent when an address was given (it may raise inside the try block) and
\* the function returns
TsRun ==
    /\ tkTask = "single" /\ tkPc = "submitted"
    /\ tkParsed' = TRUE
    /\ \/ /\ tkOutcome' = <<[status |-> "error", cards |-> 0]>>
          /\ status' = "RUNNING"
          /\ tkPc' = "except"
          /\ UNCHANGED <<statistics, detailed_results>>
       \/ \E n \in 0..MaxJobCards :
            /\ tkOutcome' = <<[status |-> "ok", cards |-> n]>>
            /\ statistics' = [status |-> "stored", total_cards_found |-> n]
            /\ detailed_results' = [status |-> "stored", cards |-> n]
            /\ IF n > 0
               THEN /\ status' = "RUNNING"
                    /\ tkPc' \in {"complete", "except"}
               ELSE /\ status' = "COMPLETED"
                    /\ tkPc' \in (IF user_email THEN {"ended", "except"} ELSE {"ended"})
    /\ UNCHANGED <<tkTask, result_file, error, user_email>>

\* run_parser_task: active_tasks[task_id].status = 'COMPLETED' (and progress)
TsComplete ==
    /\ tkTask = "single" /\ tkPc = "complete"
    /\ status' = "COMPLETED"
    /\ tkPc' = "result_file"
    /\ UNCHANGED <<tkTask, detailed_results, result_file, error, user_email,
                   tkOutcome, tkParsed, statistics>>

\* run_parser_task: active_tasks[task_id].result_file = ..., then the notification
TsResultFile ==
    /\ tkTask = "single" /\ tkPc = "result_file"
    /\ result_file' = "report.csv"
    /\ tkPc' \in (IF user_email THEN {"ended", "except"} ELSE {"ended"})
    /\ UNCHANGED <<tkTask, status, detailed_results, error, user_email,
                   tkOutcome, tkParsed, statistics>>

\* run_parser_task: except Exception: status = 'FAILED', error = the
\* message; the notification sent here is in a try block of its own
TsExcept ==
    /\ tkTask = "single" /\ tkPc = "except"
    /\ status' = "FAILED"
    /\ error' = "message"
    /\ tkPc' = "ended"
    /\ UNCHANGED <<tkTask, detailed_results, result_file, user_email,
                   tkOutcome, tkParsed, statistics>>

TkNext ==
    (TbRun \/ TbSave \/ TbComplete \/ TsRun \/ TsComplete \/ TsResultFile \/ TsExcept)
      /\ UNCHANGED <<ldVars, hvVars, rvVars, agVars, cdVars, lcVars, cpVars, cbVars>>
      /\ UNCHANGED <<jbPc, ywPc, gwPc, search_scope, yandex_min_cards_threshold,
                     settingsAccess, yandex_future, gis_future, yandex_result,
                     gis_result>>

\* the task's thread keeps running: a step that can be taken is taken
SpecTask == TkInit /\ [][TkNext]_vars /\ WF_vars(TkNext)

(***************************************************************************)
(* Claims about a task's status                                            *)
(***************************************************************************)
\* C22: every submitted task whose parser run(s) returned or raised
\* eventually has the status COMPLETED or FAILED; a failure while the
\* output file is written or the notification is sent does not leave it
\* RUNNING forever.
C22_TaskReachesFinalStatus ==
    tkParsed ~> (status \in {"COMPLETED", "FAILED"})

C36_FinalStatusNeverChanges ==
    [][ (status \in {"COMPLETED", "FAILED"}) => UNCHANGED status ]_vars

(***************************************************************************)
(* run_both_parsers_task: the two runs' results are combined               *)
(***************************************************************************)
\* the card records a run returns: as the parser created them, they carry no
\* 'source' key ("none")
CreatedCards ==
    {[rating |-> c.rating, body |-> c.body, source |-> "none"] : c \in CardRecords}

\* the cards_data of one run
CardRuns == UNION {[1..n -> CreatedCards] : n \in 0..MaxCombineCards}

\* both futures returned a result and no error; each result holds the run's
\* cards and the aggregated_info the run computed from them
CbInit ==
    /\ LdIdle
    /\ HvIdle
    /\ RvIdle
    /\ AgIdle
    /\ CdIdle
    /\ LcIdle
    /\ JbIdle
    /\ CpIdle
    /\ TkIdle
    /\ cbPc = "yandex"
    /\ yandex_cards \in CardRuns
    /\ gis_cards \in CardRuns
    /\ all_cards = <<>>
    /\ combined_aggregated = CombinedZero

\* the block of one source: every card of the run gets card['source'] and is
\* appended to all_cards; the run's card count and sums are added
CbTake(parser) ==
    /\ cbPc = parser
    /\ LET cards == IF parser = "yandex" THEN yandex_cards ELSE gis_cards
           agg == OneGoExported(parser, cards)
           tagged == [i \in 1..Len(cards) |->
                        [cards[i] EXCEPT !.source =
                            IF parser = "yandex" THEN "yandex" ELSE "2gis"]]
       IN  /\ yandex_cards' = IF parser = "yandex" THEN tagged ELSE yandex_cards
           /\ gis_cards' = IF parser = "gis" THEN tagged ELSE gis_cards
           /\ all_cards' = all_cards \o tagged
           /\ combined_aggregated' =
                [combined_aggregated EXCEPT
                   !.total_cards_found = @ + Len(cards),
                   !.sums = [reviews |-> @.reviews + agg.sums.reviews,
                             positive |-> @.positive + agg.sums.positive,
                             negative |-> @.negative + agg.sums.negative,
                             answered |-> @.answered + agg.sums.answered,
                             unanswered |-> @.unanswered + agg.sums.unanswered]]
    /\ cbPc' = IF parser = "yandex" THEN "gis" ELSE "means"

\* the weighted mean rating: each run's aggregated_rating, when positive,
\* weighs total_cards_found of the run; then the answered percent (in
\* hundredths of a percent); aggregated_avg_response_time is left as created
CbMeans ==
    /\ cbPc = "means"
    /\ LET yandex_agg == OneGoExported("yandex", yandex_cards)
           gis_agg == OneGoExported("gis", gis_cards)
           yandex_cards_count ==
               IF yandex_agg.rating > 0 /\ yandex_agg.total > 0 THEN yandex_agg.total ELSE 0
           gis_cards_count ==
               IF gis_agg.rating > 0 /\ gis_agg.total > 0 THEN gis_agg.total ELSE 0
           total_rating_count == yandex_cards_count + gis_cards_count
           total_reviews == combined_aggregated.sums.reviews
           answered_reviews == combined_aggregated.sums.answered
       IN  combined_aggregated' =
             [combined_aggregated EXCEPT
                !.aggregated_rating =
                    IF total_rating_count > 0
                    THEN Round2(yandex_agg.rating * yandex_cards_count
                                  + gis_agg.rating * gis_cards_count,
                                total_rating_count)
                    ELSE @,
                !.aggregated_answered_reviews_percent =
                    IF total_reviews > 0
                    THEN Round2(answered_reviews * 10000, total_reviews)
                    ELSE 0]
    /\ cbPc' = "done"
    /\ UNCHANGED <<yandex_cards, gis_cards, all_cards>>

CbNext ==
    (CbTake("yandex") \/ CbTake("gis") \/ CbMeans)
      /\ UNCHANGED <<ldVars, hvVars, rvVars, agVars, cdVars, lcVars, jbVars, cpVars, tkVars>>

SpecCombine == CbInit /\ [][CbNext]_vars

(***************************************************************************)
(* Claims about the combined result                                        *)
(***************************************************************************)
\* the mean of two runs' means m1, m2 re-weighted by their sample counts
Reweighted(m1, n1, m2, n2) ==
    IF n1 + n2 = 0 THEN 0 ELSE Round2(m1 * n1 + m2 * n2, n1 + n2)

\* C35: the combined summary of a multi-source job equals the fold of all
\* cards of both runs: the counts are the sums of the runs' counts, and the
\* mean rating and the mean response time are the runs' means re-weighted by
\* their sample counts (rated cards, cards with a response time).
C35_CombinedEqualsFoldOfAll ==
    cbPc = "done" =>
        LET y == OneGoExported("yandex", yandex_cards)
            g == OneGoExported("gis", gis_cards)
        IN  /\ combined_aggregated.total_cards_found = y.total + g.total
            /\ combined_aggregated.sums.reviews = y.sums.reviews + g.sums.reviews
            /\ combined_aggregated.sums.positive = y.sums.positive + g.sums.positive
            /\ combined_aggregated.sums.negative = y.sums.negative + g.sums.negative
            /\ combined_aggregated.sums.answered = y.sums.answered + g.sums.answered
            /\ combined_aggregated.sums.unanswered = y.sums.unanswered + g.sums.unanswered
            /\ combined_aggregated.aggregated_rating =
                 Reweighted(y.rating, CountParsed("yandex", yandex_cards),
                            g.rating, CountParsed("gis", gis_cards))
            /\ combined_aggregated.aggregated_avg_response_time =
                 Reweighted(y.avg, CardLevelTimes("yandex", yandex_cards).count,
                            g.avg, CardLevelTimes("gis", gis_cards).count)

\* C40: a CardRecord is never mutated after its creation: no step of the
\* combiner writes to a field of a card record a run returned.
C40_CardRecordsNeverMutated ==
    [][ yandex_cards' = yandex_cards /\ gis_cards' = gis_cards ]_vars

====
